---- MODULE Spec2Model ----
(***************************************************************************)
(* A model of the llama-stack demos' two procedures with behaviour worth   *)
(* checking: the attach-and-poll loop _attach_file                         *)
(* (src/01_foundations/05_insert_documents.py, copied verbatim in          *)
(* src/demos/01_foundations/06_search_vectors.py) and the context          *)
(* composer build_context (src/shared/utils.py).                           *)
(*                                                                         *)
(* Time is counted in ticks of 100 ms, so time.sleep(0.2) is two ticks.    *)
(* time.time() is taken to be non-decreasing.  A call to the service       *)
(* (files.create, files.retrieve) takes 0..MaxLatency ticks and a sleep    *)
(* may overshoot by 0..MaxJitter ticks.                                    *)
(*                                                                         *)
(* Python strings are sequences of atoms: a one-character string for each  *)
(* character of a text fragment or file name, and one atom for each        *)
(* literal piece of the f-string and for the header.                       *)
(***************************************************************************)
EXTENDS Integers, Sequences, FiniteSets, TLC

\* ------------------------------------------------------------------ bounds
\* Largest timeout_seconds a caller passes, in ticks.
MaxTimeout == 6
\* Longest round trip of one service call, in ticks.
MaxLatency == 1
\* Longest overshoot of one time.sleep, in ticks.
MaxJitter == 1

\* Largest search response: its entries plus all their content items.
MaxResultSize == 5

\* Most calls of build_context made one after the other by one process.
MaxCalls == 3


\* Most entries one vector store contributes to a file_search answer.
MaxHits == 3


\* Largest token count in a chunking_strategy passed to _attach_with_chunking.
MaxTokens == 6


\* Most files in the directory, and most URLs, given to insert-documents.
MaxDocs == 2


\* Largest absolute value of a number in a /calculate request.
MaxNum == 1


\* Most models the service lists.
MaxModels == 2


\* Most providers client.providers.list() returns.
MaxProviders == 2


\* Most words of a prompt.
MaxWords == 2

\* time.sleep(0.2): the poll interval, in ticks of 100 ms.
PollInterval == 2

\* ------------------------------------------------- _attach_file: the service
\* The attachment states of the service (spec section 6).
Statuses == {"pending", "in_progress", "completed", "failed"}

\* The states a retrieve may report after the client last saw s: the
\* lifecycle pending -> in_progress -> {completed | failed}.
ServiceNext(s) ==
    CASE s = "pending"     -> {"pending", "in_progress", "completed", "failed"}
      [] s = "in_progress" -> {"in_progress", "completed", "failed"}
      [] s = "completed"   -> {"completed"}
      [] s = "failed"      -> {"failed"}

\* response.last_error of a response with status s: absent (the empty
\* string) or a message, and only a failed attachment carries one.
NoError == ""
LastErrors(s) == IF s = "failed" THEN {NoError, "parse error"} ELSE {NoError}

VARIABLES
    pc,               \* position in _attach_file
    timeout_seconds,  \* the parameter, in ticks
    clock,            \* time.time(), in ticks
    start_time,       \* the local start_time
    status,           \* response.status
    last_error,       \* response.last_error.message, NoError when absent
    nCreate,          \* calls of client.vector_stores.files.create
    nRetrieve,        \* calls of client.vector_stores.files.retrieve
    nSleep,           \* calls of time.sleep
    ret,              \* the return value: "unset", "True", "False"
    report,           \* what was printed: "none", "timed_out", "failed"
    reportMsg,        \* the error message printed with "Failed to attach"
    obs,              \* history: every status the client was given
    checks,           \* history: the elapsed time read at each line-107 check
    issuedAt,         \* history: the elapsed time at which each retrieve was issued
    lastLatency,      \* history: the round trip of the last retrieve
    lastSleep,        \* history: the length of the last sleep
    brokeOut          \* history: the loop was left by the break of line 108

attachVars == <<pc, timeout_seconds, clock, start_time, status, last_error,
                nCreate, nRetrieve, nSleep, ret, report, reportMsg,
                obs, checks, issuedAt, lastLatency, lastSleep, brokeOut>>

VARIABLES
    search_results,   \* the argument: [none |-> it is None, items |-> the list]
    cpc,              \* position in build_context: "input", "loop", "done"
    idx,              \* the position of the for loop in search_results
    context_lines,    \* the local context_lines
    snippets,         \* history: the snippet computed for each entry
    ctx_out           \* the string returned

ctxVars == <<search_results, cpc, idx, context_lines, snippets, ctx_out>>

VARIABLES
    calls             \* history: [input, output] of each earlier call of build_context


VARIABLES
    ms_pc,            \* position in main of the multi-source demo
    reachable,        \* the vector stores whose search backend answers now
    ms_created,       \* the stores created so far: store_a, store_b
    ms_attached,      \* the stores a document was attached to
    ms_requests,      \* the vector_store_ids of each responses.create issued
    ms_searched,      \* the stores whose search ran for the request
    ms_response,      \* response: the store each returned entry came from
    ms_printed,       \* the lines main printed
    ms_escaped        \* the exception that left main, "" if none

multiVars == <<ms_pc, reachable, ms_created, ms_attached, ms_requests,
               ms_searched, ms_response, ms_printed, ms_escaped>>


VARIABLES
    ck_pc,              \* position in _attach_with_chunking
    chunking_strategy,  \* the argument: max_chunk_size_tokens, chunk_overlap_tokens
    ck_uploaded,        \* client.files.create was called
    ck_requests         \* the chunking_strategy of each attach request issued

chunkVars == <<ck_pc, chunking_strategy, ck_uploaded, ck_requests>>


VARIABLES
    b_pc,             \* position in main of insert-documents
    file_dir,         \* the argument: "none", "missing" (no such directory), "dir"
    dir_files,        \* the files under file_dir: the bytes of each
    url_list,         \* the documents behind the URLs: reachable, and their bytes
    file_paths,       \* the local: the content of each file to upload
    doc,              \* the file_paths entry the loop is at
    uploads,          \* history: every client.files.create: document, content, ok
    outcomes,         \* history: what _attach_file returned and printed, per document
    b_printed,        \* the lines main and download_documents printed
    b_escaped         \* the exception that left main, "" if none

batchVars == <<b_pc, file_dir, dir_files, url_list, file_paths, doc, uploads,
               outcomes, b_printed, b_escaped>>


VARIABLES
    cl_demo,          \* which main runs: "simple_rag" or "chunking"
    cl_pc,            \* "body", "finally", "exit"
    cl_step,          \* the statement of the try body, or of the finally block, in turn
    cl_created,       \* the locals that hold a created resource (not None)
    cl_body,          \* how the try body ended: "", "finished" or the exception raised
    cl_deletes,       \* history: every delete call: the resource, the error ("" if none)
    cl_warnings,      \* the warnings printed: the resource of each
    cl_escaped        \* the exception that left main and where it was raised

cleanupVars == <<cl_demo, cl_pc, cl_step, cl_created, cl_body, cl_deletes,
                 cl_warnings, cl_escaped>>


VARIABLES
    m_pc,             \* "request": the handler is about to run; "responded"
    op,               \* the MathOperation of the request
    m_response,       \* the HTTP response: status_code, detail, result
    m_evaluated       \* history: the arithmetic the handler evaluated

calcVars == <<m_pc, op, m_response, m_evaluated>>


VARIABLES
    g_pc,             \* position in main of the chat-completion demo
    model_id,         \* the argument: None or a string
    env_model,        \* os.getenv("LLAMA_STACK_MODEL"): None or a string
    stream,           \* the argument
    models,           \* client.models.list()
    resolved_model,   \* the local
    available_models, \* the local of the utils helpers
    g_i,              \* the loop of get_any_available_chat_model
    probes,           \* history: every can_model_chat request: model, ok
    generated,        \* history: every generation request: model, stream
    g_printed         \* the lines printed: the text and the list shown

chatVars == <<g_pc, model_id, env_model, stream, models, resolved_model,
              available_models, g_i, probes, generated, g_printed>>


VARIABLES
    v_pc,             \* position in main of insert-documents, lines 149-164
    v_provider_id,    \* the argument provider_id: None or a string
    v_store_id,       \* the argument vector_store_id: None or a string
    v_providers,      \* client.providers.list()
    v_provider,       \* the local provider: what _get_vector_provider returned
    v_printed,        \* the lines printed: the text and the ids shown
    v_created         \* history: the provider_id of each vector_stores.create

vecVars == <<v_pc, v_provider_id, v_store_id, v_providers, v_provider,
             v_printed, v_created>>


VARIABLES
    t_pc,             \* position in run of the MCP demo
    t_provider_id,    \* the argument provider_id: None or a string
    t_tool_name,      \* the argument tool_name
    t_providers,      \* client.providers.list()
    t_provider,       \* the local provider
    t_tool_names,     \* the local tool_names
    t_requests,       \* history: every request of run to the service
    t_printed         \* the lines printed: the text and the ids shown

mcpVars == <<t_pc, t_provider_id, t_tool_name, t_providers, t_provider,
             t_tool_names, t_requests, t_printed>>


VARIABLES
    h_pc,             \* position in main of the client-setup demo
    h_load_dotenv,    \* the module global load_dotenv is not None
    h_host,           \* the argument host
    h_port,           \* the argument port
    h_client,         \* the client: None or its base_url
    h_calls,          \* history: the outcome of every client.inspect.health()
    h_exc,            \* the exception in flight, "" when there is none
    h_health,         \* the local health
    h_printed,        \* the lines printed
    h_dotenv_loaded   \* history: the calls of load_dotenv()

setupVars == <<h_pc, h_load_dotenv, h_host, h_port, h_client, h_calls, h_exc,
               h_health, h_printed, h_dotenv_loaded>>


VARIABLES
    r_pc,             \* position in the loop body of main, lines 140-148
    r_subtask,        \* the subtask, a string of characters
    r_web_available,  \* web_tool is not None
    r_route,          \* the local route
    r_agent,          \* the key of the agent and session looked up
    r_turns           \* history: every create_turn: the agent and the content

routeVars == <<r_pc, r_subtask, r_web_available, r_route, r_agent, r_turns>>

VARIABLES
    m_tools           \* the tools of the last GET /mcp/tools response

catalogVars == <<m_tools>>

vars == <<attachVars, ctxVars, calls, multiVars, chunkVars, batchVars,
    cleanupVars, calcVars, chatVars, vecVars, mcpVars, setupVars, routeVars,
    catalogVars>>

\* What the steps of one procedure leave alone: the state of the others.
notAttach == <<ctxVars, calls, multiVars, chunkVars, batchVars, cleanupVars,
    calcVars, chatVars, vecVars, mcpVars, setupVars, routeVars, catalogVars>>
notContext == <<attachVars, calls, multiVars, chunkVars, batchVars,
    cleanupVars, calcVars, chatVars, vecVars, mcpVars, setupVars, routeVars,
    catalogVars>>
notRepeat == <<attachVars, multiVars, chunkVars, batchVars, cleanupVars,
    calcVars, chatVars, vecVars, mcpVars, setupVars, routeVars, catalogVars>>
notMulti == <<attachVars, ctxVars, calls, chunkVars, batchVars, cleanupVars,
    calcVars, chatVars, vecVars, mcpVars, setupVars, routeVars, catalogVars>>
notChunk == <<attachVars, ctxVars, calls, multiVars, batchVars, cleanupVars,
    calcVars, chatVars, vecVars, mcpVars, setupVars, routeVars, catalogVars>>
notBatch == <<ctxVars, calls, multiVars, chunkVars, cleanupVars, calcVars,
    chatVars, vecVars, mcpVars, setupVars, routeVars, catalogVars>>
notCleanup == <<attachVars, ctxVars, calls, multiVars, chunkVars, batchVars,
    calcVars, chatVars, vecVars, mcpVars, setupVars, routeVars, catalogVars>>
notCalc == <<attachVars, ctxVars, calls, multiVars, chunkVars, batchVars,
    cleanupVars, chatVars, vecVars, mcpVars, setupVars, routeVars,
    catalogVars>>
notChat == <<attachVars, ctxVars, calls, multiVars, chunkVars, batchVars,
    cleanupVars, calcVars, vecVars, mcpVars, setupVars, routeVars,
    catalogVars>>
notVec == <<attachVars, ctxVars, calls, multiVars, chunkVars, batchVars,
    cleanupVars, calcVars, chatVars, mcpVars, setupVars, routeVars,
    catalogVars>>
notMcp == <<attachVars, ctxVars, calls, multiVars, chunkVars, batchVars,
    cleanupVars, calcVars, chatVars, vecVars, setupVars, routeVars,
    catalogVars>>
notSetup == <<attachVars, ctxVars, calls, multiVars, chunkVars, batchVars,
    cleanupVars, calcVars, chatVars, vecVars, mcpVars, routeVars,
    catalogVars>>
notRoute == <<attachVars, ctxVars, calls, multiVars, chunkVars, batchVars,
    cleanupVars, calcVars, chatVars, vecVars, mcpVars, setupVars,
    catalogVars>>
notCatalog == <<attachVars, ctxVars, calls, multiVars, chunkVars, batchVars,
    cleanupVars, calcVars, chatVars, vecVars, mcpVars, setupVars, routeVars>>

\* ------------------------------------------------ _attach_file: the code
\* time.time() - start_time
Elapsed(now, start) == now - start

\* Mutant of TimedOut: the comparison is >= instead of >.
TimedOutInclusive(elapsed, timeout) == elapsed >= timeout

\* Mutant of TimedOut: the timeout is honoured one poll interval late.
TimedOutLate(elapsed, timeout) == elapsed > timeout + PollInterval

\* time.time() - start_time > timeout_seconds (lines 107 and 116)
TimedOut(elapsed, timeout) == elapsed > timeout

\* Mutant of LoopCond: the loop polls until the attachment fails.
LoopCondUntilFailed(s) == s # "failed"

\* while response.status == "in_progress" (line 105)
LoopCond(s) == s = "in_progress"

\* Mutant of IsCompleted: the status is compared with a misspelt literal.
IsCompletedMisspelt(s) == s = "complete"

\* if response.status == "completed" (line 113)
IsCompleted(s) == s = "completed"

\* Mutant of IsTimeoutOutcome: the status is not looked at.
IsTimeoutOutcomeAnyStatus(elapsed, timeout, s) == TimedOut(elapsed, timeout)

\* time.time() - start_time > timeout_seconds and response.status == "in_progress"
IsTimeoutOutcome(elapsed, timeout, s) ==
    TimedOut(elapsed, timeout) /\ s = "in_progress"

AttachInit ==
    /\ pc = "create"
    /\ timeout_seconds \in 0..MaxTimeout
    /\ clock = 0
    /\ start_time = 0
    /\ status = "none"
    /\ last_error = NoError
    /\ nCreate = 0
    /\ nRetrieve = 0
    /\ nSleep = 0
    /\ ret = "unset"
    /\ report = "none"
    /\ reportMsg = NoError
    /\ obs = <<>>
    /\ checks = <<>>
    /\ issuedAt = <<>>
    /\ lastLatency = 0
    /\ lastSleep = 0
    /\ brokeOut = FALSE

\* Lines 96-104: the attach request, then start_time = time.time().
Create ==
    /\ pc = "create"
    /\ UNCHANGED notAttach
    /\ \E s \in Statuses, e \in {NoError, "parse error"}, lat \in 0..MaxLatency :
          /\ e \in LastErrors(s)
          /\ status' = s
          /\ last_error' = e
          /\ clock' = clock + lat
          /\ start_time' = clock + lat
          /\ obs' = Append(obs, s)
    /\ nCreate' = nCreate + 1
    /\ pc' = "while"
    /\ UNCHANGED <<timeout_seconds, nRetrieve, nSleep, ret, report, reportMsg,
                   checks, issuedAt, lastLatency, lastSleep, brokeOut>>

\* Lines 105-106: the loop condition holds, time.sleep(0.2).
Sleep ==
    /\ pc = "while"
    /\ UNCHANGED notAttach
    /\ LoopCond(status)
    /\ \E j \in 0..MaxJitter :
          /\ clock' = clock + PollInterval + j
          /\ lastSleep' = PollInterval + j
    /\ nSleep' = nSleep + 1
    /\ pc' = "check"
    /\ UNCHANGED <<timeout_seconds, start_time, status, last_error, nCreate,
                   nRetrieve, ret, report, reportMsg, obs, checks, issuedAt,
                   lastLatency, brokeOut>>

\* Lines 107-108: if time.time() - start_time > timeout_seconds: break.
CheckTimeout ==
    /\ pc = "check"
    /\ UNCHANGED notAttach
    /\ checks' = Append(checks, Elapsed(clock, start_time))
    /\ IF TimedOut(Elapsed(clock, start_time), timeout_seconds)
         THEN /\ brokeOut' = TRUE
              /\ pc' = "after_loop"
         ELSE /\ brokeOut' = brokeOut
              /\ pc' = "retrieve"
    /\ UNCHANGED <<timeout_seconds, clock, start_time, status, last_error,
                   nCreate, nRetrieve, nSleep, ret, report, reportMsg, obs,
                   issuedAt, lastLatency, lastSleep>>

\* Lines 109-112: response = client.vector_stores.files.retrieve(...).
Retrieve ==
    /\ pc = "retrieve"
    /\ UNCHANGED notAttach
    /\ issuedAt' = Append(issuedAt, Elapsed(clock, start_time))
    /\ \E s \in ServiceNext(status), e \in {NoError, "parse error"},
          lat \in 0..MaxLatency :
          /\ e \in LastErrors(s)
          /\ status' = s
          /\ last_error' = e
          /\ clock' = clock + lat
          /\ lastLatency' = lat
          /\ obs' = Append(obs, s)
    /\ nRetrieve' = nRetrieve + 1
    /\ pc' = "while"
    /\ UNCHANGED <<timeout_seconds, start_time, nCreate, nSleep, ret, report,
                   reportMsg, checks, lastSleep, brokeOut>>

\* Line 105: the loop condition fails, the loop is left.
LoopExit ==
    /\ pc = "while"
    /\ UNCHANGED notAttach
    /\ ~LoopCond(status)
    /\ pc' = "after_loop"
    /\ UNCHANGED <<timeout_seconds, clock, start_time, status, last_error,
                   nCreate, nRetrieve, nSleep, ret, report, reportMsg, obs,
                   checks, issuedAt, lastLatency, lastSleep, brokeOut>>

\* Lines 113-125: return True, or print the outcome and return False.  The
\* clock is read again at line 116, no earlier than at line 107.
Classify ==
    /\ pc = "after_loop"
    /\ UNCHANGED notAttach
    /\ \E d \in 0..MaxJitter :
          /\ clock' = clock + d
          /\ IF IsCompleted(status)
               THEN /\ ret' = "True"
                    /\ report' = "none"
                    /\ reportMsg' = NoError
               ELSE /\ ret' = "False"
                    /\ IF IsTimeoutOutcome(Elapsed(clock + d, start_time),
                                           timeout_seconds, status)
                         THEN /\ report' = "timed_out"
                              /\ reportMsg' = NoError
                         ELSE /\ report' = "failed"
                              /\ reportMsg' = last_error
    /\ pc' = "done"
    /\ UNCHANGED <<timeout_seconds, start_time, status, last_error, nCreate,
                   nRetrieve, nSleep, obs, checks, issuedAt, lastLatency,
                   lastSleep, brokeOut>>

AttachNext ==
    \/ Create
    \/ Sleep
    \/ CheckTimeout
    \/ Retrieve
    \/ LoopExit
    \/ Classify

\* ------------------------------------------------ _attach_file: the claims
\* Every status the client was given is in_progress.
AllInProgress == \A i \in DOMAIN obs : obs[i] = "in_progress"

\* The elapsed time read at the last line-107 check, and at the one before.
LastCheck == checks[Len(checks)]
PrevCheck == IF Len(checks) > 1 THEN checks[Len(checks) - 1] ELSE 0

\* C1 as stated: when the attachment is in_progress on the attach response
\* and on every retrieve, _attach_file returns False, reports 'Timed out',
\* and the loop is left at most one poll interval (one sleep, as long as it
\* really took) after the timeout elapsed.
C1_ExitWithinOnePollInterval ==
    (pc = "done" /\ AllInProgress) =>
        /\ ret = "False"
        /\ report = "timed_out"
        /\ LastCheck > timeout_seconds
        /\ LastCheck <= timeout_seconds + lastSleep

\* C1 as amended: the loop sleeps at most timeout_seconds / 0.2 s + 1 times;
\* when the attachment never leaves in_progress the loop is left by the
\* first line-107 check that reads more than timeout_seconds (every earlier
\* check read at most timeout_seconds), which comes at most one retrieve
\* round trip plus one sleep after the timeout elapsed, and _attach_file
\* returns False and reports 'Timed out', not 'Failed to attach'.
C1_TimeoutExitsAtFirstLateCheck ==
    /\ (nSleep > 0 => (nSleep - 1) * PollInterval <= timeout_seconds)
    /\ (pc = "done" /\ AllInProgress) =>
        /\ ret = "False"
        /\ report = "timed_out"
        /\ brokeOut
        /\ LastCheck > timeout_seconds
        /\ \A i \in 1..(Len(checks) - 1) : checks[i] <= timeout_seconds
        /\ LastCheck <= PrevCheck + lastLatency + lastSleep
        /\ LastCheck <= timeout_seconds + lastLatency + lastSleep

\* C1's case: a run of in_progress answers times out after some retrieves,
\* and leaves the loop more than one poll interval after the timeout.
C1_Witness ==
    /\ pc = "done"
    /\ AllInProgress
    /\ nRetrieve >= 2
    /\ report = "timed_out"
    /\ LastCheck > timeout_seconds + lastSleep

\* C2: _attach_file ends in exactly one of success (True, nothing
\* reported), timeout ('Timed out' reported) or failure ('Failed to attach'
\* reported), and it reports the timeout exactly when the loop was left by
\* the break with the last status seen still in_progress.
C2_ThreeOutcomes ==
    pc = "done" =>
        /\ \/ ret = "True" /\ report = "none" /\ status = "completed"
           \/ ret = "False" /\ report = "timed_out" /\ status # "completed"
           \/ ret = "False" /\ report = "failed" /\ status # "completed"
        /\ (report = "timed_out") <=> (brokeOut /\ status = "in_progress")

\* C2's case: the timeout has elapsed when the outcome is classified, but
\* the loop was left because the last retrieve answered failed.
C2_Witness ==
    /\ pc = "done"
    /\ report = "failed"
    /\ status = "failed"
    /\ ~brokeOut
    /\ Elapsed(clock, start_time) > timeout_seconds

\* C3: whenever _attach_file returns without the timeout having elapsed,
\* the last status it saw is terminal, completed or failed (a pending
\* attachment keeps being polled).
C3_PolledToTerminal ==
    (pc = "done" /\ ~(Elapsed(clock, start_time) > timeout_seconds)) =>
        status \in {"completed", "failed"}

\* The client saw n >= 0 times in_progress and then completed.
InProgressThenCompleted ==
    /\ obs # <<>>
    /\ obs[Len(obs)] = "completed"
    /\ \A i \in 1..(Len(obs) - 1) : obs[i] = "in_progress"

\* C4: n answers in_progress (the attach response first) followed by
\* completed give success after exactly n sleep-then-retrieve iterations.
C4_ExactlyNPolls ==
    (pc = "done" /\ InProgressThenCompleted) =>
        /\ ret = "True"
        /\ report = "none"
        /\ nRetrieve = Len(obs) - 1
        /\ nSleep = Len(obs) - 1

\* C4's case: in_progress three times, then completed, three polls.
C4_Witness ==
    /\ pc = "done"
    /\ obs = <<"in_progress", "in_progress", "in_progress", "completed">>
    /\ nRetrieve = 3
    /\ nSleep = 3
    /\ ret = "True"

\* C5: when the attach response is completed, _attach_file neither sleeps
\* nor retrieves, and returns True.
C5_CompletedAtOnce ==
    (obs # <<>> /\ obs[1] = "completed") =>
        /\ nSleep = 0
        /\ nRetrieve = 0
        /\ (pc = "done" => ret = "True" /\ report = "none")

\* C5's case: the attach response was completed and the function returned.
C5_Witness ==
    /\ pc = "done"
    /\ obs = <<"completed">>
    /\ ret = "True"

\* C6: the attach request is issued exactly once, every retrieve is issued
\* with at most timeout_seconds elapsed since the attach response, and
\* after the break nothing more is requested.
C6_NoRequestAfterTimeout ==
    /\ nCreate = (IF pc = "create" THEN 0 ELSE 1)
    /\ Len(issuedAt) = nRetrieve
    /\ \A i \in DOMAIN issuedAt : issuedAt[i] <= timeout_seconds
    /\ (brokeOut => pc \in {"after_loop", "done"})

\* C6's case: retrieves were issued, then the timeout ended the polling.
C6_Witness ==
    /\ pc = "done"
    /\ brokeOut
    /\ nCreate = 1
    /\ nRetrieve >= 1

\* --------------------------------------------- build_context: the strings
\* str.strip() strips these.
Whitespace == {" ", "\n", "\t"}

RECURSIVE LStrip(_)
LStrip(s) ==
    IF s = <<>> THEN s
    ELSE IF Head(s) \in Whitespace THEN LStrip(Tail(s)) ELSE s

RECURSIVE RStrip(_)
RStrip(s) ==
    IF s = <<>> THEN s
    ELSE IF s[Len(s)] \in Whitespace THEN RStrip(SubSeq(s, 1, Len(s) - 1)) ELSE s

\* str.strip()
Strip(s) == RStrip(LStrip(s))

\* sep.join(parts)
RECURSIVE Join(_, _)
Join(sep, parts) ==
    IF parts = <<>> THEN <<>>
    ELSE IF Len(parts) = 1 THEN parts[1]
    ELSE parts[1] \o sep \o Join(sep, Tail(parts))

\* The decimal digits of d.
Digit(d) == <<"0", "1", "2", "3", "4", "5", "6", "7", "8", "9">>[d + 1]

\* f"{score:.2f}" of a score given in thousandths.  The scores of the model
\* are multiples of 1/8, which a float holds exactly, so the format rounds
\* the exact value, a tie going to the even hundredth.
FormatScore(score) ==
    LET h == score \div 10
        r == score % 10
        up == r > 5 \/ (r = 5 /\ h % 2 = 1)
        c == IF up THEN h + 1 ELSE h
    IN  <<Digit((c \div 100) % 10), ".", Digit((c \div 10) % 10), Digit(c % 10)>>

\* ------------------------------------------- build_context: the inputs
\* A content item of a search result: has_text is FALSE when the item has no
\* text attribute or its text is None.
ContentChoices ==
    { [has_text |-> FALSE, text |-> <<>>],
      [has_text |-> TRUE,  text |-> <<>>],
      [has_text |-> TRUE,  text |-> <<" ">>],
      [has_text |-> TRUE,  text |-> <<"a">>],
      [has_text |-> TRUE,  text |-> <<" ", "b", "\n", "c", " ">>] }

\* The (filename, score in thousandths) pairs a search result carries.
ResultChoices ==
    { [filename |-> <<"f">>, score |-> 875],
      [filename |-> <<"g">>, score |-> 500] }

\* Entries plus content items of a list of search results.
RECURSIVE ResultSize(_)
ResultSize(items) ==
    IF items = <<>> THEN 0
    ELSE 1 + Len(Head(items).content) + ResultSize(Tail(items))

\* ------------------------------------------- build_context: the code
\* The header line (line 161).
Header == <<"Context from uploaded documents:">>

\* Mutant of IsFalsy: the guard is "search_results is None".
IsNoneOnly(sr) == sr.none

\* not search_results (line 159): None or an empty list.
IsFalsy(sr) == sr.none \/ sr.items = <<>>

\* getattr(content, "text", None) is truthy (line 164).
HasText(content) == content.has_text /\ content.text # <<>>

\* content.text.strip() for each content that passes the filter, in order.
RECURSIVE StrippedTexts(_)
StrippedTexts(content) ==
    IF content = <<>> THEN <<>>
    ELSE IF HasText(Head(content))
         THEN <<Strip(Head(content).text)>> \o StrippedTexts(Tail(content))
         ELSE StrippedTexts(Tail(content))

\* Lines 163-165: " ".join(...).strip()
Snippet(result) == Strip(Join(<<" ">>, StrippedTexts(result.content)))

\* Line 168: f"- {result.filename} (score={result.score:.2f}): {snippet}"
FormatLine(result, snippet) ==
    <<"- ">> \o result.filename \o <<" (score=">> \o FormatScore(result.score)
        \o <<"): ">> \o snippet

\* Mutant of NextAfterSkip: break instead of continue.
NextAfterSkipBreaks(i, n) == n + 1

\* Line 167: continue, the loop goes on with the next of the n entries.
NextAfterSkip(i, n) == i + 1

\* Mutant of FreshContextLines: context_lines is a list created once, with
\* the header, and shared by every call.
SharedContextLines(previous) ==
    IF previous = <<>> THEN <<Header>> ELSE previous

\* Line 161: context_lines = [header], a new list whatever the name was
\* bound to by an earlier call.
FreshContextLines(previous) == <<Header>>

CtxInit ==
    /\ search_results \in { [none |-> TRUE, items |-> <<>>],
                            [none |-> FALSE, items |-> <<>>] }
    /\ cpc = "input"
    /\ idx = 0
    /\ context_lines = <<>>
    /\ snippets = <<>>
    /\ ctx_out = <<>>

\* The service adds an entry to the search response.
SvcAddResult ==
    /\ cpc = "input"
    /\ UNCHANGED notContext
    /\ ~search_results.none
    /\ ResultSize(search_results.items) < MaxResultSize
    /\ \E r \in ResultChoices :
          search_results' =
              [search_results EXCEPT !.items =
                  Append(@, [filename |-> r.filename, score |-> r.score,
                             content |-> <<>>])]
    /\ UNCHANGED <<cpc, idx, context_lines, snippets, ctx_out>>

\* The service adds a content item to the last entry of the search response.
SvcAddContent ==
    /\ cpc = "input"
    /\ UNCHANGED notContext
    /\ search_results.items # <<>>
    /\ ResultSize(search_results.items) < MaxResultSize
    /\ \E c \in ContentChoices :
          search_results' =
              [search_results EXCEPT !.items[Len(search_results.items)].content =
                  Append(@, c)]
    /\ UNCHANGED <<cpc, idx, context_lines, snippets, ctx_out>>

\* Lines 159-161: the guard, then context_lines = [header].
BuildContextEnter ==
    /\ cpc \in {"input", "call"}
    /\ UNCHANGED notContext
    /\ IF IsFalsy(search_results)
         THEN /\ ctx_out' = <<>>
              /\ cpc' = "done"
              /\ UNCHANGED <<idx, context_lines>>
         ELSE /\ context_lines' = FreshContextLines(context_lines)
              /\ idx' = 1
              /\ cpc' = "loop"
              /\ UNCHANGED ctx_out
    /\ UNCHANGED <<search_results, snippets>>

\* Lines 162-168: one iteration of the for loop.
BuildContextIter ==
    /\ cpc = "loop"
    /\ UNCHANGED notContext
    /\ idx <= Len(search_results.items)
    /\ LET result == search_results.items[idx]
           snippet == Snippet(result)
       IN  /\ snippets' = Append(snippets, snippet)
           /\ IF snippet = <<>>
                THEN /\ idx' = NextAfterSkip(idx, Len(search_results.items))
                     /\ UNCHANGED context_lines
                ELSE /\ context_lines' =
                            Append(context_lines, FormatLine(result, snippet))
                     /\ idx' = idx + 1
    /\ UNCHANGED <<search_results, cpc, ctx_out>>

\* Line 169: return "\n".join(context_lines)
BuildContextReturn ==
    /\ cpc = "loop"
    /\ UNCHANGED notContext
    /\ idx > Len(search_results.items)
    /\ ctx_out' = Join(<<"\n">>, context_lines)
    /\ cpc' = "done"
    /\ UNCHANGED <<search_results, idx, context_lines, snippets>>

CtxNext ==
    \/ SvcAddResult
    \/ SvcAddContent
    \/ BuildContextEnter
    \/ BuildContextIter
    \/ BuildContextReturn

\* The lists a caller holding the response sr may pass next: sr itself or
\* its first k entries.
Prefixes(sr) ==
    {sr} \cup { [none |-> FALSE, items |-> SubSeq(sr.items, 1, k)] :
                   k \in 0..Len(sr.items) }

\* The caller calls build_context again: on the same list, on a shorter one,
\* or on the list of an earlier call.  The frame of the call that returned
\* is gone; what it left in context_lines and idx is whatever the next call
\* finds before it assigns.
CallAgain ==
    /\ cpc = "done"
    /\ UNCHANGED notRepeat
    /\ Len(calls) < MaxCalls - 1
    /\ calls' = Append(calls, [input |-> search_results, output |-> ctx_out])
    /\ \E sr \in Prefixes(search_results)
                    \cup {calls[i].input : i \in DOMAIN calls} :
          search_results' = sr
    /\ cpc' = "call"
    /\ snippets' = <<>>
    /\ UNCHANGED <<idx, context_lines, ctx_out>>

CtxRepeatNext ==
    \/ SvcAddResult
    \/ SvcAddContent
    \/ BuildContextEnter
    \/ BuildContextIter
    \/ BuildContextReturn
    \/ CallAgain

\* ------------------------------------------------ build_context: the claims
\* build_context was given a list with at least one entry.
GivenEntries == ~search_results.none /\ Len(search_results.items) > 0

\* The entry has a content item whose text holds a non-whitespace character.
EntryHasText(result) ==
    \E k \in DOMAIN result.content :
        /\ result.content[k].has_text
        /\ \E j \in DOMAIN result.content[k].text :
              result.content[k].text[j] \notin Whitespace

\* The entries that survive the filtering, in the order of the response.
Survivors == SelectSeq(search_results.items, EntryHasText)

\* How often the atom occurs in the string.
Count(atom, str) == Cardinality({p \in DOMAIN str : str[p] = atom})

\* 1 + the number of newline characters of the string.
NumLines(str) == 1 + Count("\n", str)

\* The file names of the items "- <filename> ..." of the string, in order.
RECURSIVE ItemFiles(_)
ItemFiles(str) ==
    IF Len(str) < 2 THEN <<>>
    ELSE IF Head(str) = "- " THEN <<str[2]>> \o ItemFiles(Tail(str))
    ELSE ItemFiles(Tail(str))

\* The file names of the entries, in order.
RECURSIVE FileNames(_)
FileNames(items) ==
    IF items = <<>> THEN <<>>
    ELSE <<Head(items).filename[1]>> \o FileNames(Tail(items))

\* C7: build_context returns the empty string when it was given entries and
\* the joined text of every one of them is empty; it never returns the
\* header alone.
C7_EmptyWhenNothingSurvives ==
    cpc = "done" =>
        /\ (GivenEntries /\ Survivors = <<>>) => ctx_out = <<>>
        /\ ctx_out # Header

\* C8: build_context applied to None or to an empty list returns the empty
\* string, never the header alone.
C8_EmptyResultsGiveEmptyString ==
    (cpc = "done" /\ ~GivenEntries) => ctx_out = <<>>

\* C8's case: build_context returned for an empty list.
C8_Witness ==
    /\ cpc = "done"
    /\ ~search_results.none
    /\ search_results.items = <<>>
    /\ ctx_out = <<>>

\* The stripped texts of the content items that have a non-blank text.
RECURSIVE NonBlankTexts(_)
NonBlankTexts(content) ==
    IF content = <<>> THEN <<>>
    ELSE IF Head(content).has_text /\ Strip(Head(content).text) # <<>>
         THEN <<Strip(Head(content).text)>> \o NonBlankTexts(Tail(content))
         ELSE NonBlankTexts(Tail(content))

\* C9: the joined text of an entry is its non-blank text fragments, in
\* order, separated by exactly one space (a missing, empty or blank fragment
\* adds neither text nor a separator), and an entry whose joined text is
\* empty produces no line.
C9_SingleSpaceJoin ==
    /\ \A i \in DOMAIN snippets :
          snippets[i] = Join(<<" ">>, NonBlankTexts(search_results.items[i].content))
    /\ (cpc = "done" /\ GivenEntries) =>
          Count("- ", ctx_out) = Len(Survivors)

\* The newline characters inside the joined texts of the entries.
RECURSIVE NewlinesInside(_)
NewlinesInside(items) ==
    IF items = <<>> THEN 0
    ELSE Count("\n", Snippet(Head(items))) + NewlinesInside(Tail(items))

\* C10 as stated: for a list of entries, the output has 1 + (number of
\* entries with a non-empty joined text) lines, one per surviving entry
\* after the header, in the order of the response.
C10_OneLinePerEntry ==
    (cpc = "done" /\ GivenEntries) =>
        /\ NumLines(ctx_out) = 1 + Len(Survivors)
        /\ ItemFiles(ctx_out) = FileNames(Survivors)

\* C10 as amended: for a list of entries, the output is the header followed
\* by exactly one item "- <filename> (score=...): <joined text>" per
\* surviving entry, each after a newline, in the order of the response,
\* none dropped or repeated; a joined text keeps the newlines inside its
\* fragments, so the output has 1 + (surviving entries) + (newline
\* characters inside their joined texts) lines.
C10_OneItemPerEntryInOrder ==
    (cpc = "done" /\ GivenEntries) =>
        /\ ctx_out[1] = Header[1]
        /\ Count("- ", ctx_out) = Len(Survivors)
        /\ ItemFiles(ctx_out) = FileNames(Survivors)
        /\ \A p \in DOMAIN ctx_out : ctx_out[p] = "- " => ctx_out[p - 1] = "\n"
        /\ NumLines(ctx_out) =
               1 + Len(Survivors) + NewlinesInside(search_results.items)

\* C10's case: three entries, the second skipped, the two others emitted,
\* one of them with a newline inside its joined text.
C10_Witness ==
    /\ cpc = "done"
    /\ Len(search_results.items) = 3
    /\ ~EntryHasText(search_results.items[2])
    /\ Len(Survivors) = 2
    /\ ItemFiles(ctx_out) = <<"g", "f">>
    /\ NumLines(ctx_out) = 4

\* C11: build_context is deterministic and stateless: a call returns the
\* string that every earlier call on an equal list of entries returned,
\* whatever calls were made in between.
C11_EqualInputsEqualOutputs ==
    cpc = "done" =>
        \A i \in DOMAIN calls :
            calls[i].input = search_results => calls[i].output = ctx_out

\* C11's case: a third call returns, on the entries of the first call, after
\* a second call on a longer list, and an item was emitted.
C11_Witness ==
    /\ cpc = "done"
    /\ Len(calls) = 2
    /\ calls[1].input = search_results
    /\ calls[2].input # search_results
    /\ Len(ctx_out) > 1


\* ------------------------------------------ multi-source RAG: main
\* The two vector stores main creates (lines 123-124).
Stores == {"store_a", "store_b"}

\* The entries a file_search over the stores in ids may return: up to
\* MaxHits from each, the entries of store_a first.
RECURSIVE Repeat(_, _)
Repeat(x, n) == IF n = 0 THEN <<>> ELSE <<x>> \o Repeat(x, n - 1)

Answers(ids) ==
    { Repeat("store_a", IF "store_a" \in ids THEN na ELSE 0)
        \o Repeat("store_b", IF "store_b" \in ids THEN nb ELSE 0) :
      na \in 0..MaxHits, nb \in 0..MaxHits }

MultiInit ==
    /\ ms_pc = "create_a"
    /\ reachable = Stores
    /\ ms_created = <<>>
    /\ ms_attached = <<>>
    /\ ms_requests = <<>>
    /\ ms_searched = {}
    /\ ms_response = <<>>
    /\ ms_printed = <<>>
    /\ ms_escaped = ""

\* The network: the search backend of a store stops answering, or answers
\* again, at any time before the query.
StoreLost ==
    /\ ms_pc \notin {"print", "done", "raised"}
    /\ UNCHANGED notMulti
    /\ \E s \in reachable : reachable' = reachable \ {s}
    /\ UNCHANGED <<ms_pc, ms_created, ms_attached, ms_requests, ms_searched,
                   ms_response, ms_printed, ms_escaped>>

StoreBack ==
    /\ ms_pc \notin {"print", "done", "raised"}
    /\ UNCHANGED notMulti
    /\ \E s \in Stores \ reachable : reachable' = reachable \cup {s}
    /\ UNCHANGED <<ms_pc, ms_created, ms_attached, ms_requests, ms_searched,
                   ms_response, ms_printed, ms_escaped>>

\* Lines 123-124: store_a, then store_b = _create_vector_store(...)
CreateStores ==
    /\ ms_pc \in {"create_a", "create_b"}
    /\ UNCHANGED notMulti
    /\ ms_created' = Append(ms_created,
                            IF ms_pc = "create_a" THEN "store_a" ELSE "store_b")
    /\ ms_pc' = IF ms_pc = "create_a" THEN "create_b" ELSE "attach_a"
    /\ UNCHANGED <<reachable, ms_attached, ms_requests, ms_searched,
                   ms_response, ms_printed, ms_escaped>>

\* Lines 127-138: _attach_text for store_a, then for store_b (lines 63-77:
\* the upload and the attach request, the result of which is not looked at).
AttachText ==
    /\ ms_pc \in {"attach_a", "attach_b"}
    /\ UNCHANGED notMulti
    /\ ms_attached' = Append(ms_attached,
                             IF ms_pc = "attach_a" THEN "store_a" ELSE "store_b")
    /\ ms_pc' = IF ms_pc = "attach_a" THEN "attach_b" ELSE "query"
    /\ UNCHANGED <<reachable, ms_created, ms_requests, ms_searched,
                   ms_response, ms_printed, ms_escaped>>

\* Lines 141-149: one responses.create for both stores, outside any try.
\* With every store reachable it returns; with a store lost the request
\* either fails as a whole, and the error leaves main, or the service
\* answers from the stores it reached.
QueryStores ==
    /\ ms_pc = "query"
    /\ UNCHANGED notMulti
    /\ ms_requests' = Append(ms_requests, <<"store_a", "store_b">>)
    /\ \/ /\ ms_searched' = reachable
          /\ ms_response' \in Answers(reachable)
          /\ ms_pc' = "print"
          /\ UNCHANGED ms_escaped
       \/ /\ reachable # Stores
          /\ ms_searched' = {}
          /\ ms_escaped' = "APIConnectionError"
          /\ ms_pc' = "raised"
          /\ UNCHANGED ms_response
    /\ UNCHANGED <<reachable, ms_created, ms_attached, ms_printed>>

\* Lines 151-153: three prints: the question, the two store ids, the
\* response.
PrintedLines == <<"[context] question", "[context] stores", "[response]">>

PrintAnswer ==
    /\ ms_pc = "print"
    /\ UNCHANGED notMulti
    /\ ms_printed' = Append(ms_printed, PrintedLines[Len(ms_printed) + 1])
    /\ ms_pc' = IF Len(ms_printed) + 1 = Len(PrintedLines) THEN "done" ELSE "print"
    /\ UNCHANGED <<reachable, ms_created, ms_attached, ms_requests,
                   ms_searched, ms_response, ms_escaped>>

MultiNext ==
    \/ StoreLost
    \/ StoreBack
    \/ CreateStores
    \/ AttachText
    \/ QueryStores
    \/ PrintAnswer

\* ------------------------------------------ multi-source RAG: the claims
\* The stores lost when the query was made.
LostAtQuery == Stores \ reachable

\* C12: when several stores are queried and the search of one of them fails
\* with a connectivity error, the other stores are still searched, the
\* answer holds exactly the entries of the stores that answered, the
\* failure is reported, and no exception leaves main.
C12_OtherStoresStillSearched ==
    (ms_pc \in {"done", "raised"} /\ ms_requests # <<>>
        /\ LostAtQuery # {} /\ LostAtQuery # Stores) =>
        /\ ms_escaped = ""
        /\ ms_searched = reachable
        /\ \A i \in DOMAIN ms_response : ms_response[i] \in reachable
        /\ \E i \in DOMAIN ms_printed : ms_printed[i] = "[error] store unreachable"


\* ------------------------------------------ _attach_with_chunking
\* The chunking_strategy argument is a dict the caller builds: any two
\* integers.
ChunkInit ==
    /\ ck_pc = "upload"
    /\ chunking_strategy \in [max_chunk_size_tokens : -1..MaxTokens,
                              chunk_overlap_tokens : -1..MaxTokens]
    /\ ck_uploaded = FALSE
    /\ ck_requests = <<>>

\* Lines 57-59: the text is uploaded as a file.
ChunkUpload ==
    /\ ck_pc = "upload"
    /\ UNCHANGED notChunk
    /\ ck_uploaded' = TRUE
    /\ ck_pc' = "attach"
    /\ UNCHANGED <<chunking_strategy, ck_requests>>

\* Lines 60-64: client.vector_stores.files.create with the argument as given.
ChunkAttach ==
    /\ ck_pc = "attach"
    /\ UNCHANGED notChunk
    /\ ck_requests' = Append(ck_requests, chunking_strategy)
    /\ ck_pc' = "done"
    /\ UNCHANGED <<chunking_strategy, ck_uploaded>>

ChunkNext ==
    \/ ChunkUpload
    \/ ChunkAttach

\* C13: no attach request is issued with a chunking configuration that
\* violates max_chunk_size_tokens > 0, chunk_overlap_tokens >= 0 and
\* chunk_overlap_tokens < max_chunk_size_tokens: a violating configuration
\* passed to _attach_with_chunking is rejected before the attach request.
C13_NoAttachWithInvalidChunking ==
    \A i \in DOMAIN ck_requests :
        /\ ck_requests[i].max_chunk_size_tokens > 0
        /\ ck_requests[i].chunk_overlap_tokens >= 0
        /\ ck_requests[i].chunk_overlap_tokens
              < ck_requests[i].max_chunk_size_tokens


\* ------------------------------------------ insert-documents: main
\* The bytes of a document: nothing, blanks only, or text between blanks.
LocalContents == { <<>>, <<"a">> }
RemoteContents == { <<>>, <<" ">>, <<" ", "a">> }

RECURSIVE SeqsUpTo(_, _)
SeqsUpTo(S, n) ==
    IF n = 0 THEN { <<>> }
    ELSE LET shorter == SeqsUpTo(S, n - 1)
         IN  shorter \cup { Append(q, x) : q \in shorter, x \in S }

\* main calls _attach_file with the default timeout_seconds (line 94: 30 s).
\* The model keeps the polling loop and scales the default down to the
\* largest timeout it explores.
DefaultTimeout == MaxTimeout

BatchInit ==
    /\ b_pc = "collect"
    /\ file_dir \in {"none", "missing", "dir"}
    /\ dir_files \in SeqsUpTo(LocalContents, MaxDocs)
    /\ (file_dir # "dir" => dir_files = <<>>)
    /\ url_list \in SeqsUpTo([reachable : BOOLEAN, bytes : RemoteContents], MaxDocs)
    /\ \A i \in DOMAIN url_list :
          ~url_list[i].reachable => url_list[i].bytes = <<>>
    /\ file_paths = <<>>
    /\ doc = 0
    /\ uploads = <<>>
    /\ outcomes = <<>>
    /\ b_printed = <<>>
    /\ b_escaped = ""

\* _attach_file is not running: it has returned, or was never called.
AttachReturned ==
    /\ pc = "done"
    /\ timeout_seconds = DefaultTimeout
    /\ clock = 0
    /\ start_time = 0
    /\ status = "none"
    /\ last_error = NoError
    /\ nCreate = 0
    /\ nRetrieve = 0
    /\ nSleep = 0
    /\ ret = "unset"
    /\ report = "none"
    /\ reportMsg = NoError
    /\ obs = <<>>
    /\ checks = <<>>
    /\ issuedAt = <<>>
    /\ lastLatency = 0
    /\ lastSleep = 0
    /\ brokeOut = FALSE

\* Lines 76-86: every p under the directory with p.is_file(), whatever its
\* size; [] when the directory does not exist or holds no file.
CollectedFiles(dir, files) == IF dir = "dir" THEN files ELSE <<>>

\* Lines 166-169: file_paths = _collect_local_files(file_dir) when file_dir is
\* given; the URLs are used when that leaves file_paths empty.
CollectLocalFiles ==
    /\ b_pc = "collect"
    /\ UNCHANGED notBatch
    /\ UNCHANGED attachVars
    /\ file_paths' = IF file_dir = "none" THEN <<>>
                     ELSE CollectedFiles(file_dir, dir_files)
    /\ b_printed' =
          IF file_dir = "none" THEN b_printed
          ELSE IF file_dir = "missing" THEN Append(b_printed, "Directory not found")
          ELSE IF dir_files = <<>> THEN Append(b_printed, "No files found")
          ELSE Append(b_printed, "Found files")
    /\ b_pc' = IF file_paths' = <<>> THEN "download" ELSE "loop"
    /\ UNCHANGED <<file_dir, dir_files, url_list, doc, uploads, outcomes,
                   b_escaped>>

\* utils.py lines 133-155: a URL that cannot be read is skipped, and so is
\* one whose decoded, stripped text is empty; the stripped text is written.
RECURSIVE Downloaded(_)
Downloaded(urls) ==
    IF urls = <<>> THEN <<>>
    ELSE IF ~Head(urls).reachable THEN Downloaded(Tail(urls))
    ELSE IF Strip(Head(urls).bytes) = <<>> THEN Downloaded(Tail(urls))
    ELSE <<Strip(Head(urls).bytes)>> \o Downloaded(Tail(urls))

\* Lines 170-175: download_documents, and the return when nothing is left.
DownloadDocuments ==
    /\ b_pc = "download"
    /\ UNCHANGED notBatch
    /\ UNCHANGED attachVars
    /\ file_paths' = Downloaded(url_list)
    /\ IF file_paths' = <<>>
         THEN /\ b_printed' = Append(b_printed, "No documents available to upload.")
              /\ b_pc' = "returned"
         ELSE /\ b_printed' = b_printed
              /\ b_pc' = "loop"
    /\ UNCHANGED <<file_dir, dir_files, url_list, doc, uploads, outcomes,
                   b_escaped>>

\* Lines 176-178 and 184-186: the next file_path, client.files.create on its
\* content, outside any try.  The upload returns, and _attach_file is called
\* with the default timeout; or the upload raises and the exception leaves
\* main.
Upload ==
    /\ b_pc = "loop"
    /\ UNCHANGED notBatch
    /\ doc < Len(file_paths)
    /\ doc' = doc + 1
    /\ \E ok \in BOOLEAN :
          /\ uploads' = Append(uploads, [doc |-> doc + 1,
                                         content |-> file_paths[doc + 1],
                                         ok |-> ok])
          /\ IF ok
               THEN /\ b_pc' = "attach"
                    /\ pc' = "create"
                    /\ UNCHANGED b_escaped
               ELSE /\ b_pc' = "raised"
                    /\ b_escaped' = "APIConnectionError"
                    /\ UNCHANGED pc
    /\ UNCHANGED <<timeout_seconds, clock, start_time, status, last_error,
                   nCreate, nRetrieve, nSleep, ret, report, reportMsg, obs,
                   checks, issuedAt, lastLatency, lastSleep, brokeOut>>
    /\ UNCHANGED <<file_dir, dir_files, url_list, file_paths, outcomes, b_printed>>

\* Lines 179-180 and 187-188: _attach_file has returned; "Attached" is
\* printed when it returned True, and the loop goes on either way.  The
\* frame of _attach_file is gone.
AttachReturns ==
    /\ b_pc = "attach"
    /\ pc = "done"
    /\ UNCHANGED notBatch
    /\ outcomes' = Append(outcomes, [doc |-> doc, ret |-> ret, report |-> report,
                                     reportMsg |-> reportMsg,
                                     last_error |-> last_error])
    /\ b_printed' = IF ret = "True" THEN Append(b_printed, "Attached") ELSE b_printed
    /\ b_pc' = "loop"
    /\ pc' = "done"
    /\ timeout_seconds' = DefaultTimeout
    /\ clock' = 0
    /\ start_time' = 0
    /\ status' = "none"
    /\ last_error' = NoError
    /\ nCreate' = 0
    /\ nRetrieve' = 0
    /\ nSleep' = 0
    /\ ret' = "unset"
    /\ report' = "none"
    /\ reportMsg' = NoError
    /\ obs' = <<>>
    /\ checks' = <<>>
    /\ issuedAt' = <<>>
    /\ lastLatency' = 0
    /\ lastSleep' = 0
    /\ brokeOut' = FALSE
    /\ UNCHANGED <<file_dir, dir_files, url_list, file_paths, doc, uploads,
                   b_escaped>>

\* Lines 181-182 and 190: the loop is over, "Done. Vector store ready".
Done ==
    /\ b_pc = "loop"
    /\ UNCHANGED notBatch
    /\ UNCHANGED attachVars
    /\ doc = Len(file_paths)
    /\ b_printed' = Append(b_printed, "Done")
    /\ b_pc' = "done"
    /\ UNCHANGED <<file_dir, dir_files, url_list, file_paths, doc, uploads,
                   outcomes, b_escaped>>

BatchNext ==
    \/ CollectLocalFiles
    \/ DownloadDocuments
    \/ Upload
    \/ Create
    \/ Sleep
    \/ CheckTimeout
    \/ Retrieve
    \/ LoopExit
    \/ Classify
    \/ AttachReturns
    \/ Done


\* ------------------------------------------ insert-documents: the claims
\* main is over: it returned or an exception left it.
BatchOver == b_pc \in {"done", "returned", "raised"}

\* Document d was uploaded and _attach_file was called for it.
UploadedAndAttached(d) ==
    /\ \E u \in DOMAIN uploads : uploads[u].doc = d /\ uploads[u].ok
    /\ \E o \in DOMAIN outcomes : outcomes[o].doc = d

\* C14: an upload that raises is fatal for its document only: it is
\* reported, the document is not uploaded again, and every later document
\* is still uploaded and attached.
C14_UploadFailureSkipsOneDocument ==
    BatchOver =>
        \A u \in DOMAIN uploads :
            ~uploads[u].ok =>
                /\ b_escaped = ""
                /\ \E l \in DOMAIN b_printed : b_printed[l] = "Failed to upload"
                /\ \A v \in DOMAIN uploads : uploads[v].doc = uploads[u].doc => v = u
                /\ \A d \in (uploads[u].doc + 1)..Len(file_paths) :
                      UploadedAndAttached(d)

\* C15: an attachment that ends failed or times out is reported for its
\* document, with the last_error message when there is one, is not tried
\* again, and does not abort the batch: every later document is still
\* uploaded and attached and the run ends with "Done".
C15_AttachFailureDoesNotAbort ==
    BatchOver =>
        \A o \in DOMAIN outcomes :
            outcomes[o].ret = "False" =>
                /\ outcomes[o].report \in {"failed", "timed_out"}
                /\ (outcomes[o].report = "failed"
                      => outcomes[o].reportMsg = outcomes[o].last_error)
                /\ \A q \in DOMAIN outcomes :
                      outcomes[q].doc = outcomes[o].doc => q = o
                /\ \A d \in (outcomes[o].doc + 1)..Len(file_paths) :
                      UploadedAndAttached(d)
                /\ b_printed # <<>>
                /\ b_printed[Len(b_printed)] = "Done"

\* C16: no empty document is submitted to upload: neither a downloaded one
\* with empty or blank content nor a zero-byte local file.
C16_NoEmptyDocumentUploaded ==
    \A u \in DOMAIN uploads : uploads[u].content # <<>>


\* ------------------------------------------ simple RAG, chunking: try/finally
\* The errors a client call raises, all subclasses of Exception.
ClientErrors == {"APIConnectionError", "NotFoundError"}

\* The calls of the try body in order, each with the local it assigns.
\* 01_simple_rag.py lines 97-129, 04_chunking_strategies.py lines 114-187.
TryBody(demo) ==
    IF demo = "simple_rag"
      THEN << [call |-> "vector_stores.create",       sets |-> "vector_store"],
              [call |-> "files.create",               sets |-> "uploaded_file"],
              [call |-> "vector_stores.files.create", sets |-> ""],
              [call |-> "responses.create",           sets |-> ""] >>
      ELSE << [call |-> "vector_stores.create",       sets |-> "store_small"],
              [call |-> "vector_stores.create",       sets |-> "store_large"],
              [call |-> "files.create",               sets |-> ""],
              [call |-> "vector_stores.files.create", sets |-> ""],
              [call |-> "files.create",               sets |-> ""],
              [call |-> "vector_stores.files.create", sets |-> ""],
              [call |-> "responses.create",           sets |-> ""],
              [call |-> "responses.create",           sets |-> ""] >>

\* The locals the finally block looks at, in order.
\* 01_simple_rag.py lines 131 and 136, 04_chunking_strategies.py lines 189, 194.
FinallyBlock(demo) ==
    IF demo = "simple_rag" THEN <<"vector_store", "uploaded_file">>
    ELSE <<"store_small", "store_large">>

\* Mutant of ExceptException: the handler is except NotFoundError.
ExceptNotFoundError(error) == error = "NotFoundError"

\* except Exception as e: the handler around each delete.
ExceptException(error) == error \in ClientErrors

\* Mutant of IsNotNone: the delete is made only when the body finished.
IsNotNoneAndFinished(local, created, body) ==
    local \in created /\ body = "finished"

\* if vector_store is not None: (and the like)
IsNotNone(local, created, body) == local \in created

CleanupInit ==
    /\ cl_demo \in {"simple_rag", "chunking"}
    /\ cl_pc = "body"
    /\ cl_step = 1
    /\ cl_created = {}
    /\ cl_body = ""
    /\ cl_deletes = <<>>
    /\ cl_warnings = <<>>
    /\ cl_escaped = [error |-> "", from |-> ""]

\* One call of the try body: it returns, and its local is assigned, or it
\* raises and control goes to the finally block.  After the last call the
\* prints end the body.
BodyCall ==
    /\ cl_pc = "body"
    /\ UNCHANGED notCleanup
    /\ cl_step <= Len(TryBody(cl_demo))
    /\ \/ /\ cl_created' = cl_created \cup
                             ({TryBody(cl_demo)[cl_step].sets} \ {""})
          /\ cl_step' = cl_step + 1
          /\ UNCHANGED <<cl_pc, cl_body>>
       \/ \E e \in ClientErrors :
             /\ cl_body' = e
             /\ cl_pc' = "finally"
             /\ cl_step' = 1
             /\ UNCHANGED cl_created
    /\ UNCHANGED <<cl_demo, cl_deletes, cl_warnings, cl_escaped>>

BodyEnds ==
    /\ cl_pc = "body"
    /\ UNCHANGED notCleanup
    /\ cl_step > Len(TryBody(cl_demo))
    /\ cl_body' = "finished"
    /\ cl_pc' = "finally"
    /\ cl_step' = 1
    /\ UNCHANGED <<cl_demo, cl_created, cl_deletes, cl_warnings, cl_escaped>>

\* One if of the finally block: the delete of a local that is not None,
\* inside its own try.  An error the handler catches is printed as a
\* warning; one it does not catch leaves main at once.
FinallyDelete ==
    /\ cl_pc = "finally"
    /\ UNCHANGED notCleanup
    /\ cl_step <= Len(FinallyBlock(cl_demo))
    /\ LET local == FinallyBlock(cl_demo)[cl_step]
       IN  IF ~IsNotNone(local, cl_created, cl_body)
             THEN /\ cl_step' = cl_step + 1
                  /\ UNCHANGED <<cl_pc, cl_deletes, cl_warnings, cl_escaped>>
             ELSE \E e \in ClientErrors \cup {""} :
                     /\ cl_deletes' = Append(cl_deletes,
                                             [local |-> local, error |-> e])
                     /\ IF e = ""
                          THEN /\ cl_step' = cl_step + 1
                               /\ UNCHANGED <<cl_pc, cl_warnings, cl_escaped>>
                          ELSE IF ExceptException(e)
                          THEN /\ cl_warnings' = Append(cl_warnings, local)
                               /\ cl_step' = cl_step + 1
                               /\ UNCHANGED <<cl_pc, cl_escaped>>
                          ELSE /\ cl_escaped' = [error |-> e, from |-> "delete"]
                               /\ cl_pc' = "exit"
                               /\ UNCHANGED <<cl_step, cl_warnings>>
    /\ UNCHANGED <<cl_demo, cl_created, cl_body>>

\* The finally block is over: main returns, or the exception of the body
\* goes on.
FinallyEnds ==
    /\ cl_pc = "finally"
    /\ UNCHANGED notCleanup
    /\ cl_step > Len(FinallyBlock(cl_demo))
    /\ cl_escaped' = IF cl_body = "finished" THEN cl_escaped
                     ELSE [error |-> cl_body, from |-> "body"]
    /\ cl_pc' = "exit"
    /\ UNCHANGED <<cl_demo, cl_step, cl_created, cl_body, cl_deletes,
                   cl_warnings>>

CleanupNext ==
    \/ BodyCall
    \/ BodyEnds
    \/ FinallyDelete
    \/ FinallyEnds

\* ------------------------------------------ try/finally: the claims
\* C17: on every exit path, a delete was attempted for each resource that
\* was created, whether the body finished or raised; a failed delete was
\* logged as a warning and did not leave main, and the deletes after it
\* were attempted all the same.
C17_CleanupOnEveryExit ==
    cl_pc = "exit" =>
        /\ \A local \in cl_created :
              \E d \in DOMAIN cl_deletes : cl_deletes[d].local = local
        /\ \A d \in DOMAIN cl_deletes :
              cl_deletes[d].error # "" =>
                  \E w \in DOMAIN cl_warnings :
                      cl_warnings[w] = cl_deletes[d].local
        /\ cl_escaped.from # "delete"
        /\ cl_escaped.from = "body" <=> cl_body # "finished"

\* C17's case: the body raised after both resources were created, the
\* first delete failed and the second was still made.
C17_Witness ==
    /\ cl_pc = "exit"
    /\ cl_body \in ClientErrors
    /\ Len(cl_deletes) = 2
    /\ cl_deletes[1].error # ""
    /\ cl_warnings = <<cl_deletes[1].local>>
    /\ cl_escaped.from = "body"


\* ------------------------------------------ math server: POST /calculate
\* Operation names, as strings of characters.
NameAdd == <<"a", "d", "d">>
NameSubtract == <<"s", "u", "b", "t", "r", "a", "c", "t">>
NameMultiply == <<"m", "u", "l", "t", "i", "p", "l", "y">>
NameDivide == <<"d", "i", "v", "i", "d", "e">>
NamePower == <<"p", "o", "w", "e", "r">>
NameSqrt == <<"s", "q", "r", "t">>
NameAbs == <<"a", "b", "s">>
NameFactorial == <<"f", "a", "c", "t", "o", "r", "i", "a", "l">>

\* str.lower(), on the letters A to Z.
UpperCase == <<"A", "B", "C", "D", "E", "F", "G", "H", "I", "J", "K", "L", "M",
               "N", "O", "P", "Q", "R", "S", "T", "U", "V", "W", "X", "Y", "Z">>
LowerCase == <<"a", "b", "c", "d", "e", "f", "g", "h", "i", "j", "k", "l", "m",
               "n", "o", "p", "q", "r", "s", "t", "u", "v", "w", "x", "y", "z">>

LowerChar(c) ==
    IF \E i \in DOMAIN UpperCase : UpperCase[i] = c
      THEN LowerCase[CHOOSE i \in DOMAIN UpperCase : UpperCase[i] = c]
      ELSE c

Lower(s) == [i \in DOMAIN s |-> LowerChar(s[i])]

\* The operation strings of the requests: the eight names, two of them in
\* other cases as well, a name the server does not know, the empty string.
Operations ==
    { NameAdd, NameSubtract, NameMultiply, NameDivide, NamePower, NameSqrt,
      NameAbs, NameFactorial,
      <<"D", "I", "V", "I", "D", "E">>,
      <<"S", "q", "r", "t">>,
      <<"m", "o", "d">>,
      <<>> }

\* An optional number of the request: None (the default of lines 25-30) or
\* a number.
None == [none |-> TRUE, v |-> 0]
Some(k) == [none |-> FALSE, v |-> k]
Params == {None} \cup { Some(k) : k \in -MaxNum..MaxNum }

\* A result: the rational num/den in lowest terms, or the square root of num.
RECURSIVE Gcd(_, _)
Gcd(x, y) == IF y = 0 THEN x ELSE Gcd(y, x % y)
Abs(x) == IF x < 0 THEN -x ELSE x

Rational(n, d) ==
    LET g == Gcd(Abs(n), Abs(d))
        s == IF d < 0 THEN -1 ELSE 1
    IN  [kind |-> "rational", num |-> s * (n \div g), den |-> s * (d \div g)]
Whole(n) == [kind |-> "rational", num |-> n, den |-> 1]
NoResult == [kind |-> "none", num |-> 0, den |-> 1]

RECURSIVE IntPow(_, _)
IntPow(x, k) == IF k = 0 THEN 1 ELSE x * IntPow(x, k - 1)

RECURSIVE Factorial(_)
Factorial(k) == IF k = 0 THEN 1 ELSE k * Factorial(k - 1)

\* What a block of the handler comes to: a value returned, or an exception.
Returns(r, ev) ==
    [exc |-> "", status_code |-> 200, detail |-> <<>>, result |-> r,
     evaluated |-> ev]
RaisesHTTP(code, detail) ==
    [exc |-> "HTTPException", status_code |-> code, detail |-> detail,
     result |-> NoResult, evaluated |-> {}]
Raises(exc, detail, ev) ==
    [exc |-> exc, status_code |-> 0, detail |-> detail, result |-> NoResult,
     evaluated |-> ev]

\* op.a / op.b, line 204: float division raises on a zero divisor.
TrueDiv(x, y) ==
    IF y = 0 THEN Raises("ZeroDivisionError", <<"float division by zero">>, {"a / b"})
    ELSE Returns(Rational(x, y), {"a / b"})

\* op.base ** op.exponent, line 210: 0.0 to a negative power raises.
Pow(x, k) ==
    IF k >= 0 THEN Returns(Whole(IntPow(x, k)), {"base ** exponent"})
    ELSE IF x = 0
      THEN Raises("ZeroDivisionError",
                  <<"0.0 cannot be raised to a negative power">>,
                  {"base ** exponent"})
    ELSE Returns(Rational(1, IntPow(x, -k)), {"base ** exponent"})

\* math.sqrt(op.value), line 218: raises on a negative argument.
MathSqrt(x) ==
    IF x < 0 THEN Raises("ValueError", <<"math domain error">>, {"sqrt(value)"})
    ELSE IF x \in {0, 1} THEN Returns(Whole(x), {"sqrt(value)"})
    ELSE Returns([kind |-> "sqrt", num |-> x, den |-> 1], {"sqrt(value)"})

\* math.factorial(op.n), line 232: raises on a negative argument.
MathFactorial(k) ==
    IF k < 0 THEN Raises("ValueError",
                         <<"factorial() not defined for negative values">>,
                         {"factorial(n)"})
    ELSE Returns(Whole(Factorial(k)), {"factorial(n)"})

\* Mutant of DivisorIsZero: the check of line 202 never fires.
DivisorIsZeroNever(b) == FALSE

\* if op.b == 0 (line 202)
DivisorIsZero(b) == b = 0

ABRequired == <<"Parameters 'a' and 'b' are required">>
ValueRequired == <<"Parameter 'value' is required">>

\* Lines 179-236: the body of the try.
TryBlock(o) ==
    LET operation == Lower(o.operation) IN
    IF operation = NameAdd THEN
        IF o.a.none \/ o.b.none THEN RaisesHTTP(400, ABRequired)
        ELSE Returns(Whole(o.a.v + o.b.v), {"a + b"})
    ELSE IF operation = NameSubtract THEN
        IF o.a.none \/ o.b.none THEN RaisesHTTP(400, ABRequired)
        ELSE Returns(Whole(o.a.v - o.b.v), {"a - b"})
    ELSE IF operation = NameMultiply THEN
        IF o.a.none \/ o.b.none THEN RaisesHTTP(400, ABRequired)
        ELSE Returns(Whole(o.a.v * o.b.v), {"a * b"})
    ELSE IF operation = NameDivide THEN
        IF o.a.none \/ o.b.none THEN RaisesHTTP(400, ABRequired)
        ELSE IF DivisorIsZero(o.b.v)
          THEN RaisesHTTP(400, <<"Division by zero is not allowed">>)
        ELSE TrueDiv(o.a.v, o.b.v)
    ELSE IF operation = NamePower THEN
        IF o.base.none \/ o.exponent.none
          THEN RaisesHTTP(400, <<"Parameters 'base' and 'exponent' are required">>)
        ELSE Pow(o.base.v, o.exponent.v)
    ELSE IF operation = NameSqrt THEN
        IF o.value.none THEN RaisesHTTP(400, ValueRequired)
        ELSE IF o.value.v < 0
          THEN RaisesHTTP(400, <<"Cannot calculate square root of negative number">>)
        ELSE MathSqrt(o.value.v)
    ELSE IF operation = NameAbs THEN
        IF o.value.none THEN RaisesHTTP(400, ValueRequired)
        ELSE Returns(Whole(Abs(o.value.v)), {"abs(value)"})
    ELSE IF operation = NameFactorial THEN
        IF o.n.none THEN RaisesHTTP(400, <<"Parameter 'n' is required">>)
        ELSE IF o.n.v < 0
          THEN RaisesHTTP(400, <<"Factorial is only defined for non-negative integers">>)
        ELSE MathFactorial(o.n.v)
    ELSE RaisesHTTP(400, <<"Unknown operation: ">> \o operation)

\* Mutant of Handlers: without the clause of lines 238-239 an HTTPException
\* is turned into a 500 like any other exception.
HandlersWithoutReraise(outcome) ==
    IF outcome.exc = "" THEN outcome
    ELSE [outcome EXCEPT !.exc = "HTTPException", !.status_code = 500,
              !.detail = <<"Error executing operation: ">> \o outcome.detail]

\* Lines 238-242: an HTTPException goes on as it is, any other exception
\* becomes a 500 that carries its text.
Handlers(outcome) ==
    IF outcome.exc \in {"", "HTTPException"} THEN outcome
    ELSE [outcome EXCEPT !.exc = "HTTPException", !.status_code = 500,
              !.detail = <<"Error executing operation: ">> \o outcome.detail]

CalcInit ==
    /\ m_pc = "request"
    /\ op \in [operation : Operations, a : Params, b : Params, value : Params,
               base : Params, exponent : Params, n : Params]
    /\ m_response = [status_code |-> 0, detail |-> <<>>, result |-> NoResult]
    /\ m_evaluated = {}

\* Lines 175-242: the handler; the response is the MathResult with status
\* 200 or the HTTPException raised.  The message text of a MathResult is
\* not modelled.
Calculate ==
    /\ m_pc = "request"
    /\ UNCHANGED notCalc
    /\ LET outcome == Handlers(TryBlock(op))
       IN  /\ m_response' = [status_code |-> outcome.status_code,
                             detail |-> outcome.detail,
                             result |-> outcome.result]
           /\ m_evaluated' = outcome.evaluated
    /\ m_pc' = "responded"
    /\ UNCHANGED op

CalcNext ==
    \/ Calculate


\* ------------------------------------------ POST /calculate: the claims
\* The request asks for something the operation is not defined for: a
\* required parameter is absent, or the division is by zero, the factorial
\* or the square root of a negative number, or zero to a negative power.
InvalidParameters(o) ==
    LET operation == Lower(o.operation) IN
    \/ operation \in {NameAdd, NameSubtract, NameMultiply, NameDivide}
          /\ (o.a.none \/ o.b.none)
    \/ operation = NameDivide /\ ~o.b.none /\ o.b.v = 0
    \/ operation = NamePower /\ (o.base.none \/ o.exponent.none)
    \/ operation = NamePower /\ ~o.base.none /\ ~o.exponent.none
          /\ o.base.v = 0 /\ o.exponent.v < 0
    \/ operation \in {NameSqrt, NameAbs} /\ o.value.none
    \/ operation = NameSqrt /\ ~o.value.none /\ o.value.v < 0
    \/ operation = NameFactorial /\ (o.n.none \/ o.n.v < 0)

\* C18: every request with missing or invalid parameters is answered 400
\* with no result, never 500 or 200.
C18_InvalidParametersGive400 ==
    (m_pc = "responded" /\ InvalidParameters(op)) =>
        /\ m_response.status_code = 400
        /\ m_response.result = NoResult

\* C19: divide with b = 0 and a present is answered 400 with the
\* division-by-zero message and no result, and the division is not
\* evaluated.
C19_DivideByZeroIs400 ==
    (m_pc = "responded" /\ Lower(op.operation) = NameDivide
        /\ ~op.a.none /\ ~op.b.none /\ op.b.v = 0) =>
        /\ m_response.status_code = 400
        /\ m_response.detail = <<"Division by zero is not allowed">>
        /\ m_response.result = NoResult
        /\ "a / b" \notin m_evaluated

\* C19's case: DIVIDE, in capitals, of 1 by 0 was answered.
C19_Witness ==
    /\ m_pc = "responded"
    /\ op.operation = <<"D", "I", "V", "I", "D", "E">>
    /\ op.a = Some(1)
    /\ op.b = Some(0)
    /\ m_response.status_code = 400


\* ------------------------------------------ chat completion: main
\* A model id is a string, here a sequence of words; an optional string is
\* None or a string.
NoneStr == [none |-> TRUE, id |-> <<>>]
Str(s) == [none |-> FALSE, id |-> s]

\* The models a service may list: their id (None when the object has none
\* of the id attributes) and their type ("" when it has no type attribute).
ModelChoices ==
    { [id |-> Str(<<"llama">>),               type |-> "llm"],
      [id |-> Str(<<"granite">>),             type |-> ""],
      [id |-> Str(<<"llama", "-", "guard">>), type |-> "llm"],
      [id |-> Str(<<"minilm">>),              type |-> "embedding"],
      [id |-> NoneStr,                        type |-> "llm"] }

\* The model_id argument and the environment variable.
ModelArgs ==
    { NoneStr, Str(<<>>), Str(<<"llama">>), Str(<<"llama", "-", "guard">>),
      Str(<<"minilm">>), Str(<<"mistral">>) }
EnvValues == { NoneStr, Str(<<>>), Str(<<"granite">>) }

\* Mutant of IsLlmModel: every model counts as an LLM.
IsLlmModelAlways(m) == TRUE

\* utils.py lines 22-25: _is_llm_model.
IsLlmModel(m) == m.type = "" \/ m.type = "llm"

\* "guard" in model_id
ContainsGuard(s) == \E i \in DOMAIN s : s[i] = "guard"

\* utils.py lines 37-42 and 84-89: the ids of the listed models that have a
\* non-empty id, are LLMs and are not guard models, in order.
RECURSIVE AvailableModels(_)
AvailableModels(ms) ==
    IF ms = <<>> THEN <<>>
    ELSE LET m == Head(ms)
         IN  IF ~m.id.none /\ m.id.id # <<>> /\ IsLlmModel(m)
                  /\ ~ContainsGuard(m.id.id)
               THEN <<m.id.id>> \o AvailableModels(Tail(ms))
               ELSE AvailableModels(Tail(ms))

\* Mutant of NotInAvailable: the membership test always passes.
NotInAvailableNever(model, available) == FALSE

\* utils.py line 44: model not in available_models
NotInAvailable(model, available) ==
    ~\E i \in DOMAIN available : available[i] = model

\* x or y of Python, on optional strings (line 65).
Or(x, y) == IF ~x.none /\ x.id # <<>> THEN x ELSE y

NoList == <<>>

ChatInit ==
    /\ g_pc = "resolve"
    /\ model_id \in ModelArgs
    /\ env_model \in EnvValues
    /\ stream \in BOOLEAN
    /\ models \in SeqsUpTo(ModelChoices, MaxModels)
    /\ resolved_model = NoneStr
    /\ available_models = <<>>
    /\ g_i = 0
    /\ probes = <<>>
    /\ generated = <<>>
    /\ g_printed = <<>>

\* Lines 65-66 and 70: resolved_model = model_id or os.getenv(...), and the
\* test resolved_model is None.
Resolve ==
    /\ g_pc = "resolve"
    /\ UNCHANGED notChat
    /\ resolved_model' = Or(model_id, env_model)
    /\ g_pc' = IF resolved_model'.none THEN "any_available" ELSE "check"
    /\ UNCHANGED <<model_id, env_model, stream, models, available_models, g_i,
                   probes, generated, g_printed>>

\* Lines 71-72 with utils.py lines 36-53: check_model_is_available; main
\* returns when the model is not in the list, which is printed.
CheckModelIsAvailable ==
    /\ g_pc = "check"
    /\ UNCHANGED notChat
    /\ available_models' = AvailableModels(models)
    /\ IF NotInAvailable(resolved_model.id, available_models')
         THEN /\ g_printed' = Append(g_printed, [line |-> "not found",
                                                 list |-> available_models'])
              /\ g_pc' = "returned"
         ELSE /\ g_printed' = g_printed
              /\ g_pc' = "can_chat"
    /\ UNCHANGED <<model_id, env_model, stream, models, resolved_model, g_i,
                   probes, generated>>

\* Lines 73-80 with utils.py lines 70-80: can_model_chat, the probe with
\* max_tokens=1; any exception of the probe is False.
CanModelChat ==
    /\ g_pc = "can_chat"
    /\ UNCHANGED notChat
    /\ \E ok \in BOOLEAN :
          /\ probes' = Append(probes, [model |-> resolved_model.id, ok |-> ok])
          /\ IF ok
               THEN /\ g_pc' = "generate"
                    /\ g_printed' = g_printed
               ELSE /\ g_pc' = "returned"
                    /\ g_printed' = Append(g_printed,
                                           [line |-> "does not support chat",
                                            list |-> NoList])
    /\ UNCHANGED <<model_id, env_model, stream, models, resolved_model,
                   available_models, g_i, generated>>

\* Lines 67-69 with utils.py lines 83-92: get_any_available_chat_model builds
\* the list and returns None when it is empty.
AnyAvailableList ==
    /\ g_pc = "any_available"
    /\ UNCHANGED notChat
    /\ available_models' = AvailableModels(models)
    /\ IF available_models' = <<>>
         THEN /\ g_printed' = Append(g_printed, [line |-> "No available models.",
                                                 list |-> NoList])
              /\ g_pc' = "returned"
              /\ g_i' = g_i
         ELSE /\ g_printed' = g_printed
              /\ g_pc' = "any_probe"
              /\ g_i' = 1
    /\ UNCHANGED <<model_id, env_model, stream, models, resolved_model, probes,
                   generated>>

\* utils.py lines 94-96: the models are probed in order and the first that
\* answers is returned.
AnyAvailableProbe ==
    /\ g_pc = "any_probe"
    /\ UNCHANGED notChat
    /\ g_i <= Len(available_models)
    /\ \E ok \in BOOLEAN :
          /\ probes' = Append(probes, [model |-> available_models[g_i],
                                       ok |-> ok])
          /\ IF ok
               THEN /\ resolved_model' = Str(available_models[g_i])
                    /\ g_pc' = "generate"
                    /\ g_i' = g_i
               ELSE /\ resolved_model' = resolved_model
                    /\ g_pc' = g_pc
                    /\ g_i' = g_i + 1
    /\ UNCHANGED <<model_id, env_model, stream, models, available_models,
                   generated, g_printed>>

\* utils.py lines 98-99 and main lines 68-69: no model answered the probe.
AnyAvailableNone ==
    /\ g_pc = "any_probe"
    /\ UNCHANGED notChat
    /\ g_i > Len(available_models)
    /\ g_printed' = Append(g_printed,
                           [line |-> "No available chat-capable models.",
                            list |-> NoList])
    /\ g_pc' = "returned"
    /\ UNCHANGED <<model_id, env_model, stream, models, resolved_model,
                   available_models, g_i, probes, generated>>

\* Lines 81-97: the generation request, streamed or not.
Generate ==
    /\ g_pc = "generate"
    /\ UNCHANGED notChat
    /\ generated' = Append(generated, [model |-> resolved_model.id,
                                       stream |-> stream])
    /\ g_pc' = "returned"
    /\ UNCHANGED <<model_id, env_model, stream, models, resolved_model,
                   available_models, g_i, probes, g_printed>>

ChatNext ==
    \/ Resolve
    \/ CheckModelIsAvailable
    \/ CanModelChat
    \/ AnyAvailableList
    \/ AnyAvailableProbe
    \/ AnyAvailableNone
    \/ Generate

\* ------------------------------------------ chat completion: the claims
\* A model was supplied, by the argument or by the environment.
Supplied == ~Or(model_id, env_model).none

\* The id s is the id of a listed LLM that is not a guard model.
Listed(s) ==
    /\ s # <<>>
    /\ \A i \in DOMAIN s : s[i] # "guard"
    /\ \E k \in DOMAIN models :
          /\ ~models[k].id.none
          /\ models[k].id.id = s
          /\ models[k].type \in {"", "llm"}

\* The probe of the id s was made and answered.
Probed(s) == \E p \in DOMAIN probes : probes[p].model = s /\ probes[p].ok

\* C20: every generation request names a validated model: a supplied model
\* is in the filtered list of available models and passed can_model_chat,
\* an auto-selected one passed can_model_chat; and when the supplied model
\* is missing from the list, the list is reported and main returns with no
\* generation request and no probe.
C20_GenerationOnlyWithValidatedModel ==
    /\ \A r \in DOMAIN generated :
          /\ Probed(generated[r].model)
          /\ Listed(generated[r].model)
    /\ (g_pc = "returned" /\ Supplied /\ ~Listed(Or(model_id, env_model).id)) =>
          /\ generated = <<>>
          /\ probes = <<>>
          /\ \E l \in DOMAIN g_printed :
                /\ g_printed[l].line = "not found"
                /\ \A s \in {<<"llama">>, <<"granite">>} :
                      Listed(s) <=> \E k \in DOMAIN g_printed[l].list :
                                        g_printed[l].list[k] = s

\* C20's case: a supplied model that is listed passed the probe and the
\* generation request was made with it; or the supplied model is not among
\* the two models listed and main returned after printing the list.
C20_Witness ==
    /\ g_pc = "returned"
    /\ Len(models) = 2
    /\ \/ /\ model_id = Str(<<"llama">>)
          /\ Len(generated) = 1
          /\ generated[1].model = <<"llama">>
       \/ /\ model_id = Str(<<"mistral">>)
          /\ Len(g_printed) = 1
          /\ Len(g_printed[1].list) = 2


\* ------------------------------------------ _get_vector_provider
\* The providers a service may list: api and provider_id.
ProviderChoices ==
    { [api |-> "vector_io",    provider_id |-> <<"faiss">>],
      [api |-> "vector_io",    provider_id |-> <<"milvus">>],
      [api |-> "inference",    provider_id |-> <<"milvus">>],
      [api |-> "tool_runtime", provider_id |-> <<"chroma">>] }

\* The provider_id argument: None, the empty string, ids of listed
\* providers of either api, an id no provider has.
ProviderArgs ==
    { NoneStr, Str(<<>>), Str(<<"faiss">>), Str(<<"milvus">>),
      Str(<<"chroma">>), Str(<<"qdrant">>) }

\* A provider object, or None.
NoProvider == [none |-> TRUE, api |-> "", provider_id |-> <<>>]
Provider(p) == [none |-> FALSE, api |-> p.api, provider_id |-> p.provider_id]

\* Lines 58-60: the listed providers with provider.api == "vector_io".
RECURSIVE VectorProviders(_)
VectorProviders(ps) ==
    IF ps = <<>> THEN <<>>
    ELSE IF Head(ps).api = "vector_io"
           THEN <<Head(ps)>> \o VectorProviders(Tail(ps))
           ELSE VectorProviders(Tail(ps))

\* Line 71: available = [provider.provider_id for provider in vector_providers]
ProviderIds(ps) == [i \in DOMAIN ps |-> ps[i].provider_id]

\* Mutant of NotFound: the default provider is returned instead of None.
NotFoundFallsBack(vector_providers) == Provider(vector_providers[1])

\* Line 73: return None, no provider has the id asked for.
NotFound(vector_providers) == NoProvider

\* Lines 57-73: what _get_vector_provider returns and what it prints.
GetVectorProvider(ps, id) ==
    LET vector_providers == VectorProviders(ps) IN
    IF vector_providers = <<>>
      THEN [ret |-> NoProvider,
            printed |-> [line |-> "No available vector_io providers. Exiting.",
                         ids |-> <<>>]]
    ELSE IF id.none
      THEN [ret |-> Provider(vector_providers[1]),
            printed |-> [line |-> "Using default vector provider",
                         ids |-> <<vector_providers[1].provider_id>>]]
    ELSE IF \E i \in DOMAIN vector_providers :
                vector_providers[i].provider_id = id.id
      THEN LET first == CHOOSE i \in DOMAIN vector_providers :
                           /\ vector_providers[i].provider_id = id.id
                           /\ \A j \in 1..(i - 1) :
                                 vector_providers[j].provider_id # id.id
           IN  [ret |-> Provider(vector_providers[first]),
                printed |-> [line |-> "Using specified vector provider",
                             ids |-> <<vector_providers[first].provider_id>>]]
    ELSE [ret |-> NotFound(vector_providers),
          printed |-> [line |-> "Vector provider not found. Available",
                       ids |-> ProviderIds(vector_providers)]]

VecInit ==
    /\ v_pc = "select"
    /\ v_provider_id \in ProviderArgs
    /\ v_store_id \in {NoneStr, Str(<<"vs_1">>)}
    /\ v_providers \in SeqsUpTo(ProviderChoices, MaxProviders)
    /\ v_provider = NoProvider
    /\ v_printed = <<>>
    /\ v_created = <<>>

\* Lines 149-150: vector_store_id is None, provider = _get_vector_provider(...)
SelectProvider ==
    /\ v_pc = "select"
    /\ UNCHANGED notVec
    /\ v_store_id.none
    /\ LET got == GetVectorProvider(v_providers, v_provider_id)
       IN  /\ v_provider' = got.ret
           /\ v_printed' = Append(v_printed, got.printed)
    /\ v_pc' = "selected"
    /\ UNCHANGED <<v_provider_id, v_store_id, v_providers, v_created>>

\* Lines 151-152: if provider is None: return
ReturnWithoutProvider ==
    /\ v_pc = "selected"
    /\ UNCHANGED notVec
    /\ v_provider.none
    /\ v_pc' = "returned"
    /\ UNCHANGED <<v_provider_id, v_store_id, v_providers, v_provider,
                   v_printed, v_created>>

\* Lines 153-162: client.vector_stores.create with provider.provider_id.
CreateVectorStore ==
    /\ v_pc = "selected"
    /\ UNCHANGED notVec
    /\ ~v_provider.none
    /\ v_created' = Append(v_created, v_provider.provider_id)
    /\ v_printed' = Append(v_printed, [line |-> "Created vector store",
                                       ids |-> <<>>])
    /\ v_pc' = "store_ready"
    /\ UNCHANGED <<v_provider_id, v_store_id, v_providers, v_provider>>

\* Lines 163-164: a vector_store_id was given, no provider is looked up.
UseExistingStore ==
    /\ v_pc = "select"
    /\ UNCHANGED notVec
    /\ ~v_store_id.none
    /\ v_printed' = Append(v_printed, [line |-> "Using existing vector store",
                                       ids |-> <<v_store_id.id>>])
    /\ v_pc' = "store_ready"
    /\ UNCHANGED <<v_provider_id, v_store_id, v_providers, v_provider,
                   v_created>>

VecNext ==
    \/ SelectProvider
    \/ ReturnWithoutProvider
    \/ CreateVectorStore
    \/ UseExistingStore

\* ------------------------------------------ _get_vector_provider: the claims
\* A listed provider with api vector_io has the id s.
VectorIoListed(s) ==
    \E k \in DOMAIN v_providers :
        v_providers[k].api = "vector_io" /\ v_providers[k].provider_id = s

\* C21: the provider returned has api vector_io and, when provider_id is
\* given, that provider_id; a given provider_id that matches no vector_io
\* provider yields None and a report of the available ids, never the
\* default provider, and the caller then creates no vector store.
C21_ProviderOnlyIfMatching ==
    v_pc \in {"selected", "store_ready", "returned"} /\ v_store_id.none =>
        /\ ~v_provider.none =>
              /\ v_provider.api = "vector_io"
              /\ VectorIoListed(v_provider.provider_id)
              /\ ~v_provider_id.none => v_provider.provider_id = v_provider_id.id
        /\ (~v_provider_id.none /\ ~VectorIoListed(v_provider_id.id)) =>
              /\ v_provider.none
              /\ v_created = <<>>
              /\ v_pc # "store_ready"
              /\ (\E k \in DOMAIN v_providers : v_providers[k].api = "vector_io")
                    => /\ v_printed[1].line = "Vector provider not found. Available"
                       /\ \A s \in {<<"faiss">>, <<"milvus">>, <<"chroma">>} :
                             VectorIoListed(s) <=>
                                 \E i \in DOMAIN v_printed[1].ids :
                                     v_printed[1].ids[i] = s

\* C21's case: milvus is asked for, the only provider of that id is an
\* inference provider listed after a vector_io one, and main returned.
C21_Witness ==
    /\ v_pc = "returned"
    /\ v_provider_id = Str(<<"milvus">>)
    /\ v_providers = << [api |-> "vector_io", provider_id |-> <<"faiss">>],
                        [api |-> "inference", provider_id |-> <<"milvus">>] >>
    /\ v_printed[1].ids = << <<"faiss">> >>


\* ------------------------------------------ MCP tools: run
\* Values of provider.api, as strings of characters.
ApiToolRuntime == <<"t", "o", "o", "l", "_", "r", "u", "n", "t", "i", "m", "e">>
ApiTool == <<"t", "o", "o", "l">>
ApiVectorIo == <<"v", "e", "c", "t", "o", "r", "_", "i", "o">>
ApiEmpty == <<>>

McpProviderId == <<"model-context-protocol">>

\* x in s of Python, for two strings: x occurs in s.
IsSubstring(x, s) ==
    \E i \in 0..(Len(s) - Len(x)) : SubSeq(s, i + 1, i + Len(x)) = x

\* The providers a service may list.
ToolProviderChoices ==
    { [api |-> ApiToolRuntime, provider_id |-> McpProviderId],
      [api |-> ApiToolRuntime, provider_id |-> <<"rag-runtime">>],
      [api |-> ApiTool,        provider_id |-> McpProviderId],
      [api |-> ApiEmpty,       provider_id |-> <<"rag-runtime">>],
      [api |-> ApiVectorIo,    provider_id |-> <<"faiss">>] }

\* The provider_id argument.
ToolProviderArgs ==
    { NoneStr, Str(McpProviderId), Str(<<"rag-runtime">>), Str(<<"faiss">>) }

\* The tool lists the MCP endpoint may answer with.
ToolLists == { <<>>, <<"add">>, <<"multiply">>, <<"add", "multiply">> }

NoToolProvider == [none |-> TRUE, api |-> <<>>, provider_id |-> <<>>]

\* Line 55: p.api in ("tool_runtime"); the parentheses hold a string, not
\* a tuple, so the test is the substring test.
ApiInToolRuntime(api) == IsSubstring(api, ApiToolRuntime)

\* Line 55: providers
RECURSIVE ToolProviders(_)
ToolProviders(ps) ==
    IF ps = <<>> THEN <<>>
    ELSE IF ApiInToolRuntime(Head(ps).api)
           THEN <<Head(ps)>> \o ToolProviders(Tail(ps))
           ELSE ToolProviders(Tail(ps))

\* The first provider of the list with the id, or None.
FirstWithId(ps, id) ==
    IF \E i \in DOMAIN ps : ps[i].provider_id = id
      THEN Provider(ps[CHOOSE i \in DOMAIN ps :
                          /\ ps[i].provider_id = id
                          /\ \A j \in 1..(i - 1) : ps[j].provider_id # id])
      ELSE NoToolProvider

\* Lines 54-68: what _get_toolgroup_provider returns and what it prints.
\* A provider_id is a string, so the loop of lines 63-65 finds nothing when
\* the argument is None.
GetToolgroupProvider(ps, id) ==
    LET providers == ToolProviders(ps)
        notFound == [ret |-> NoToolProvider,
                     printed |-> [line |-> "Provider not found. Available",
                                  ids |-> ProviderIds(providers)]]
    IN  IF providers = <<>>
          THEN [ret |-> NoToolProvider,
                printed |-> [line |-> "No toolgroup providers found. Skipping registration.",
                             ids |-> <<>>]]
        ELSE IF id.none
          THEN IF ~FirstWithId(providers, McpProviderId).none
                 THEN [ret |-> FirstWithId(providers, McpProviderId),
                       printed |-> [line |-> "", ids |-> <<>>]]
                 ELSE notFound
        ELSE IF ~FirstWithId(providers, id.id).none
          THEN [ret |-> FirstWithId(providers, id.id),
                printed |-> [line |-> "", ids |-> <<>>]]
        ELSE notFound

Request(call, arg, ok) == [call |-> call, arg |-> arg, ok |-> ok]

McpInit ==
    /\ t_pc = "provider"
    /\ t_provider_id \in ToolProviderArgs
    /\ t_tool_name \in {"add", "multiply"}
    /\ t_providers \in SeqsUpTo(ToolProviderChoices, MaxProviders)
    /\ t_provider = NoToolProvider
    /\ t_tool_names = <<>>
    /\ t_requests = <<>>
    /\ t_printed = <<>>

\* Line 85: provider = _get_toolgroup_provider(client, provider_id)
ToolgroupProvider ==
    /\ t_pc = "provider"
    /\ UNCHANGED notMcp
    /\ LET got == GetToolgroupProvider(t_providers, t_provider_id)
       IN  /\ t_provider' = got.ret
           /\ t_printed' = IF got.printed.line = "" THEN t_printed
                           ELSE Append(t_printed, got.printed)
    /\ t_pc' = "register"
    /\ UNCHANGED <<t_provider_id, t_tool_name, t_providers, t_tool_names,
                   t_requests>>

\* Lines 86-93: provider is not None, client.toolgroups.register; an
\* exception of the request leaves run.
Register ==
    /\ t_pc = "register"
    /\ UNCHANGED notMcp
    /\ ~t_provider.none
    /\ \E ok \in BOOLEAN :
          /\ t_requests' = Append(t_requests,
                                  Request("register", t_provider.provider_id, ok))
          /\ IF ok
               THEN /\ t_printed' = Append(t_printed,
                                           [line |-> "Registered toolgroup",
                                            ids |-> <<>>])
                    /\ t_pc' = "list_tools"
               ELSE /\ t_printed' = t_printed
                    /\ t_pc' = "raised"
    /\ UNCHANGED <<t_provider_id, t_tool_name, t_providers, t_provider,
                   t_tool_names>>

\* Lines 94-95: provider is None.
SkipRegistration ==
    /\ t_pc = "register"
    /\ UNCHANGED notMcp
    /\ t_provider.none
    /\ t_printed' = Append(t_printed,
           [line |-> "Continuing without server-side toolgroup registration.",
            ids |-> <<>>])
    /\ t_pc' = "list_tools"
    /\ UNCHANGED <<t_provider_id, t_tool_name, t_providers, t_provider,
                   t_tool_names, t_requests>>

\* Lines 98-100: client.tool_runtime.list_tools and tool_names.
ListTools ==
    /\ t_pc = "list_tools"
    /\ UNCHANGED notMcp
    /\ \/ \E names \in ToolLists :
             /\ t_tool_names' = names
             /\ t_requests' = Append(t_requests,
                                     Request("list_tools", <<>>, TRUE))
             /\ t_printed' = Append(t_printed, [line |-> "Available MCP tools",
                                                ids |-> names])
             /\ t_pc' = "check"
       \/ /\ t_tool_names' = t_tool_names
          /\ t_requests' = Append(t_requests, Request("list_tools", <<>>, FALSE))
          /\ t_printed' = t_printed
          /\ t_pc' = "raised"
    /\ UNCHANGED <<t_provider_id, t_tool_name, t_providers, t_provider>>

ToolListed == \E i \in DOMAIN t_tool_names : t_tool_names[i] = t_tool_name

\* Lines 102-112: tool_name not in tool_names, run returns.
ToolNotFound ==
    /\ t_pc = "check"
    /\ UNCHANGED notMcp
    /\ ~ToolListed
    /\ t_printed' = Append(t_printed, [line |-> "Tool not found in MCP tools.",
                                       ids |-> <<>>])
    /\ t_pc' = "returned"
    /\ UNCHANGED <<t_provider_id, t_tool_name, t_providers, t_provider,
                   t_tool_names, t_requests>>

\* Lines 115-119: client.tool_runtime.invoke_tool.
InvokeTool ==
    /\ t_pc = "check"
    /\ UNCHANGED notMcp
    /\ ToolListed
    /\ \E ok \in BOOLEAN :
          /\ t_requests' = Append(t_requests,
                                  Request("invoke_tool", <<t_tool_name>>, ok))
          /\ IF ok
               THEN /\ t_printed' = Append(t_printed, [line |-> "result",
                                                       ids |-> <<>>])
                    /\ t_pc' = "unregister"
               ELSE /\ t_printed' = t_printed
                    /\ t_pc' = "raised"
    /\ UNCHANGED <<t_provider_id, t_tool_name, t_providers, t_provider,
                   t_tool_names>>

\* Lines 122-123: client.toolgroups.unregister.
Unregister ==
    /\ t_pc = "unregister"
    /\ UNCHANGED notMcp
    /\ \E ok \in BOOLEAN :
          /\ t_requests' = Append(t_requests, Request("unregister", <<>>, ok))
          /\ IF ok
               THEN /\ t_printed' = Append(t_printed,
                                           [line |-> "Unregistered toolgroup",
                                            ids |-> <<>>])
                    /\ t_pc' = "returned"
               ELSE /\ t_printed' = t_printed
                    /\ t_pc' = "raised"
    /\ UNCHANGED <<t_provider_id, t_tool_name, t_providers, t_provider,
                   t_tool_names>>

McpNext ==
    \/ ToolgroupProvider
    \/ Register
    \/ SkipRegistration
    \/ ListTools
    \/ ToolNotFound
    \/ InvokeTool
    \/ Unregister

\* ------------------------------------------ MCP tools: the claims
\* The request of the kind was made and answered.
Requested(call) ==
    \E r \in DOMAIN t_requests : t_requests[r].call = call /\ t_requests[r].ok

\* C22: on every path on which run registers the toolgroup, the toolgroup
\* is unregistered before run returns, the path where the requested tool is
\* not listed included.
C22_RegisteredThenUnregistered ==
    (t_pc = "returned" /\ Requested("register")) =>
        \E r, u \in DOMAIN t_requests :
            /\ r < u
            /\ t_requests[r].call = "register"
            /\ t_requests[u].call = "unregister"


\* A listed provider whose api is exactly tool_runtime has the id s.
ToolRuntimeListed(s) ==
    \E k \in DOMAIN t_providers :
        t_providers[k].api = ApiToolRuntime /\ t_providers[k].provider_id = s

\* C28: _get_toolgroup_provider returns only a provider whose api is
\* exactly tool_runtime, a provider with any other api (a substring of
\* tool_runtime, the empty string) is never a candidate; with provider_id
\* None it returns the provider model-context-protocol if there is one among
\* the tool_runtime providers and None otherwise.
C28_OnlyExactToolRuntime ==
    t_pc # "provider" =>
        /\ ~t_provider.none =>
              /\ t_provider.api = ApiToolRuntime
              /\ ToolRuntimeListed(t_provider.provider_id)
        /\ t_provider_id.none =>
              IF ToolRuntimeListed(McpProviderId)
                THEN /\ ~t_provider.none
                     /\ t_provider.provider_id = McpProviderId
                ELSE t_provider.none

\* C30: toolgroups.unregister is requested only after the same run
\* registered the toolgroup; when registration is skipped, no unregister
\* request is sent.
C30_UnregisterOnlyAfterRegister ==
    \A u \in DOMAIN t_requests :
        t_requests[u].call = "unregister" =>
            \E r \in 1..(u - 1) :
                t_requests[r].call = "register" /\ t_requests[r].ok


\* ------------------------------------------ client setup: main
\* What client.inspect.health() raises when the remote cannot be reached,
\* and what else it may raise; KeyboardInterrupt is no Exception.
ConnectivityErrors == {"APIConnectionError", "APITimeoutError"}
HealthErrors == ConnectivityErrors \cup {"InternalServerError", "KeyboardInterrupt"}

\* What client.inspect.health() returns: an object with model_dump, or one
\* without.
HealthResponses == {"HealthInfo", "dict"}

NoHealth == "None"
NoClient == [none |-> TRUE, host |-> "", port |-> 0]

\* Mutant of ExceptExceptionCatches: the handler lets every exception go.
ExceptExceptionCatchesNothing(exc) == FALSE

\* Line 41: except Exception
ExceptExceptionCatches(exc) == exc # "KeyboardInterrupt"

\* Line 44: hasattr(health, "model_dump")
HasModelDump(health) == health = "HealthInfo"

SetupInit ==
    /\ h_pc = "dotenv"
    /\ h_load_dotenv \in BOOLEAN
    /\ h_host \in {"localhost", "stack.example.com"}
    /\ h_port \in {80, 8321}
    /\ h_client = NoClient
    /\ h_calls = <<>>
    /\ h_exc = ""
    /\ h_health = NoHealth
    /\ h_printed = <<>>
    /\ h_dotenv_loaded = 0

\* Lines 30-32 and 36: _maybe_load_dotenv()
MaybeLoadDotenv ==
    /\ h_pc = "dotenv"
    /\ UNCHANGED notSetup
    /\ h_dotenv_loaded' = IF h_load_dotenv THEN h_dotenv_loaded + 1
                          ELSE h_dotenv_loaded
    /\ h_pc' = "client"
    /\ UNCHANGED <<h_load_dotenv, h_host, h_port, h_client, h_calls, h_exc,
                   h_health, h_printed>>

\* Line 38: client = LlamaStackClient(base_url=f"http://{host}:{port}")
CreateClient ==
    /\ h_pc = "client"
    /\ UNCHANGED notSetup
    /\ h_client' = [none |-> FALSE, host |-> h_host, port |-> h_port]
    /\ h_pc' = "health"
    /\ UNCHANGED <<h_load_dotenv, h_host, h_port, h_calls, h_exc, h_health,
                   h_printed, h_dotenv_loaded>>

\* Lines 39-40: health = client.inspect.health(), which returns or raises.
Health ==
    /\ h_pc = "health"
    /\ UNCHANGED notSetup
    /\ \/ \E response \in HealthResponses :
             /\ h_calls' = Append(h_calls, [error |-> "", client |-> h_client])
             /\ h_health' = response
             /\ h_exc' = ""
             /\ h_pc' = "print"
       \/ \E error \in HealthErrors :
             /\ h_calls' = Append(h_calls, [error |-> error, client |-> h_client])
             /\ h_health' = h_health
             /\ h_exc' = error
             /\ h_pc' = "except"
    /\ UNCHANGED <<h_load_dotenv, h_host, h_port, h_client, h_printed,
                   h_dotenv_loaded>>

\* Lines 41-43: except Exception as exc: print and return; an exception
\* the clause does not catch leaves main.
ExceptHealth ==
    /\ h_pc = "except"
    /\ UNCHANGED notSetup
    /\ IF ExceptExceptionCatches(h_exc)
         THEN /\ h_printed' = Append(h_printed,
                                     [line |-> "Health check failed: ",
                                      arg |-> h_exc])
              /\ h_exc' = ""
              /\ h_pc' = "returned"
         ELSE /\ h_printed' = h_printed
              /\ h_exc' = h_exc
              /\ h_pc' = "raised"
    /\ UNCHANGED <<h_load_dotenv, h_host, h_port, h_client, h_calls, h_health,
                   h_dotenv_loaded>>

\* Lines 44-47: the health object is printed, by model_dump() if it has one.
PrintHealth ==
    /\ h_pc = "print"
    /\ UNCHANGED notSetup
    /\ h_printed' = Append(h_printed,
                           [line |-> IF HasModelDump(h_health)
                                       THEN "health.model_dump()" ELSE "health",
                            arg |-> h_health])
    /\ h_pc' = "returned"
    /\ UNCHANGED <<h_load_dotenv, h_host, h_port, h_client, h_calls, h_exc,
                   h_health, h_dotenv_loaded>>

SetupNext ==
    \/ MaybeLoadDotenv
    \/ CreateClient
    \/ Health
    \/ ExceptHealth
    \/ PrintHealth

\* ------------------------------------------ client setup: the claims
\* C23: a connectivity error of the health check is reported and main ends
\* there: the health call was made once, main returned without an
\* exception, and the one line printed is the failure with the error.
C23_HealthFailureReportedOnce ==
    /\ Len(h_calls) <= 1
    /\ (h_calls # <<>> /\ h_calls[1].error \in ConnectivityErrors) =>
          /\ h_pc \in {"except", "returned"}
          /\ h_pc = "returned" =>
                /\ h_exc = ""
                /\ h_printed = <<[line |-> "Health check failed: ",
                                  arg |-> h_calls[1].error]>>
                /\ h_health = NoHealth

\* C23's case: the remote could not be reached and main returned.
C23_Witness ==
    /\ h_pc = "returned"
    /\ Len(h_calls) = 1
    /\ h_calls[1].error = "APIConnectionError"
    /\ Len(h_printed) = 1


\* ------------------------------------------ agent routing: _route_subtask
\* The words of the prompts, as strings of characters: a research keyword
\* with a capital, a finance keyword in capitals, a word that contains the
\* math keyword sum, a digit, an operator, both in one word, a keyword of
\* the last test, a word without any keyword.
Words ==
    { <<"F", "i", "n", "d">>,
      <<"S", "T", "O", "C", "K">>,
      <<"s", "u", "m", "m", "a", "r", "y">>,
      <<"7">>,
      <<"+">>,
      <<"7", "+", "2">>,
      <<"w", "h", "o">>,
      <<"h", "e", "l", "l", "o">> }

\* The prompts: up to MaxWords words with a space between them.
RECURSIVE Text(_)
Text(ws) ==
    IF ws = <<>> THEN <<>>
    ELSE IF Len(ws) = 1 THEN ws[1]
    ELSE ws[1] \o <<" ">> \o Text(Tail(ws))

Prompts == { Text(ws) : ws \in SeqsUpTo(Words, MaxWords) }

\* The token lists of lines 55, 57, 59, 62 and 65.
ResearchTokens ==
    { <<"u", "p", "d", "a", "t", "e">>,
      <<"r", "e", "c", "e", "n", "t">>,
      <<"r", "e", "l", "e", "a", "s", "e">>,
      <<"n", "e", "w", "s">>,
      <<"s", "e", "a", "r", "c", "h">>,
      <<"f", "i", "n", "d">> }
FinanceTokens ==
    { <<"s", "t", "o", "c", "k">>,
      <<"t", "i", "c", "k", "e", "r">>,
      <<"p", "r", "i", "c", "e">>,
      <<"m", "a", "r", "k", "e", "t">> }
MathTokens ==
    { <<"c", "a", "l", "c", "u", "l", "a", "t", "e">>,
      <<"s", "u", "m">>,
      <<"m", "a", "t", "h">> }
OperatorTokens == { <<"+">>, <<"-">>, <<"*">>, <<"/">> }
LateTokens ==
    { <<"l", "a", "t", "e", "s", "t">>,
      <<"w", "h", "o">>,
      <<"w", "h", "e", "n">> }

\* char.isdigit(), on the characters of the prompts.
IsDigit(c) == c \in {"0", "1", "2", "3", "4", "5", "6", "7", "8", "9"}

\* any(token in lower_prompt for token in tokens)
AnyTokenIn(tokens, lower_prompt) ==
    \E token \in tokens : IsSubstring(token, lower_prompt)

\* any(char.isdigit() for char in lower_prompt)
AnyDigit(lower_prompt) == \E i \in DOMAIN lower_prompt : IsDigit(lower_prompt[i])

\* Mutant of ResearchIfWeb: research whether the web tool is there or not.
ResearchAlways(web_available) == "research"

\* "research" if web_available else "general" (lines 56 and 66)
ResearchIfWeb(web_available) ==
    IF web_available THEN "research" ELSE "general"

\* Mutant of RouteSubtask: the finance keywords are tested first.
RouteSubtaskFinanceFirst(prompt, web_available) ==
    LET lower_prompt == Lower(prompt) IN
    IF AnyTokenIn(FinanceTokens, lower_prompt) THEN "finance"
    ELSE IF AnyTokenIn(ResearchTokens, lower_prompt)
      THEN ResearchIfWeb(web_available)
    ELSE IF AnyTokenIn(MathTokens, lower_prompt) THEN "math"
    ELSE IF AnyDigit(lower_prompt) /\ AnyTokenIn(OperatorTokens, lower_prompt)
      THEN "math"
    ELSE IF AnyTokenIn(LateTokens, lower_prompt)
      THEN ResearchIfWeb(web_available)
    ELSE "general"

\* Lines 53-67: _route_subtask.
RouteSubtask(prompt, web_available) ==
    LET lower_prompt == Lower(prompt) IN
    IF AnyTokenIn(ResearchTokens, lower_prompt)
      THEN ResearchIfWeb(web_available)
    ELSE IF AnyTokenIn(FinanceTokens, lower_prompt) THEN "finance"
    ELSE IF AnyTokenIn(MathTokens, lower_prompt) THEN "math"
    ELSE IF AnyDigit(lower_prompt) /\ AnyTokenIn(OperatorTokens, lower_prompt)
      THEN "math"
    ELSE IF AnyTokenIn(LateTokens, lower_prompt)
      THEN ResearchIfWeb(web_available)
    ELSE "general"

\* Lines 98-122: the keys of agents and of sessions.
AgentNames == {"general", "research", "math", "finance"}

RouteInit ==
    /\ r_pc = "route"
    /\ r_subtask \in Prompts
    /\ r_web_available \in BOOLEAN
    /\ r_route = ""
    /\ r_agent = ""
    /\ r_turns = <<>>

\* Line 140: route = _route_subtask(subtask, web_available)
Route ==
    /\ r_pc = "route"
    /\ UNCHANGED notRoute
    /\ r_route' = RouteSubtask(r_subtask, r_web_available)
    /\ r_pc' = "lookup"
    /\ UNCHANGED <<r_subtask, r_web_available, r_agent, r_turns>>

\* Lines 141-142: agents[route] and sessions[route]; a key that is not
\* there raises KeyError.
Lookup ==
    /\ r_pc = "lookup"
    /\ UNCHANGED notRoute
    /\ IF r_route \in AgentNames
         THEN r_agent' = r_route /\ r_pc' = "turn"
         ELSE r_agent' = r_agent /\ r_pc' = "KeyError"
    /\ UNCHANGED <<r_subtask, r_web_available, r_route, r_turns>>

\* Lines 143-148: agent.create_turn with the subtask.
CreateTurn ==
    /\ r_pc = "turn"
    /\ UNCHANGED notRoute
    /\ r_turns' = Append(r_turns, [agent |-> r_agent, content |-> r_subtask])
    /\ r_pc' = "done"
    /\ UNCHANGED <<r_subtask, r_web_available, r_route, r_agent>>

RouteNext ==
    \/ Route
    \/ Lookup
    \/ CreateTurn

\* ------------------------------------------ agent routing: the claims
\* The subtask, in lower case, contains one of the tokens.
Mentions(tokens) ==
    \E token \in tokens :
        \E i \in 1..Len(r_subtask) :
            /\ i + Len(token) - 1 <= Len(r_subtask)
            /\ \A k \in 1..Len(token) : LowerChar(r_subtask[i + k - 1]) = token[k]

\* The subtask has a digit and one of the four operator characters.
DigitAndOperator ==
    /\ \E i \in DOMAIN r_subtask : IsDigit(r_subtask[i])
    /\ \E i \in DOMAIN r_subtask : r_subtask[i] \in {"+", "-", "*", "/"}

\* C24: the precedence of _route_subtask is research keywords, finance
\* keywords, math keywords, digit with operator, then latest/who/when, else
\* general; a prompt with a research and a finance keyword goes to research
\* when the web tool is available and to general, never finance, when not.
C24_RoutePrecedence ==
    r_pc # "route" =>
        /\ r_route =
              IF Mentions(ResearchTokens)
                THEN IF r_web_available THEN "research" ELSE "general"
              ELSE IF Mentions(FinanceTokens) THEN "finance"
              ELSE IF Mentions(MathTokens) THEN "math"
              ELSE IF DigitAndOperator THEN "math"
              ELSE IF Mentions(LateTokens)
                THEN IF r_web_available THEN "research" ELSE "general"
              ELSE "general"
        /\ (Mentions(ResearchTokens) /\ Mentions(FinanceTokens)) =>
              /\ r_route # "finance"
              /\ r_web_available => r_route = "research"
              /\ ~r_web_available => r_route = "general"

\* C24's case: "Find STOCK" was routed without the web tool.
C24_Witness ==
    /\ r_pc = "done"
    /\ r_subtask = <<"F", "i", "n", "d", " ", "S", "T", "O", "C", "K">>
    /\ ~r_web_available
    /\ r_route = "general"

\* C25: the route is one of general, research, math, finance, so that the
\* lookups of main find their key, and it is research only when the web
\* tool is available.
C25_RouteIsAnAgent ==
    /\ r_pc # "KeyError"
    /\ r_pc # "route" =>
          /\ r_route \in {"general", "research", "math", "finance"}
          /\ r_route = "research" => r_web_available
    /\ \A t \in DOMAIN r_turns : r_turns[t].agent = r_route

\* C25's case: a prompt with the keyword who was routed without the web
\* tool, and the turn was made with the general agent.
C25_Witness ==
    /\ r_pc = "done"
    /\ r_subtask = <<"w", "h", "o", " ", "h", "e", "l", "l", "o">>
    /\ ~r_web_available
    /\ r_turns = <<[agent |-> "general", content |-> r_subtask]>>


\* ------------------------------------------ POST /calculate: the handlers
\* The eight operation names of the branches of lines 182-233.
SupportedOperations ==
    { NameAdd, NameSubtract, NameMultiply, NameDivide, NamePower, NameSqrt,
      NameAbs, NameFactorial }

\* C26: an HTTPException with status 400 raised in the try block is the
\* response, with its status and detail unchanged, never a 500; an
\* operation name that is, in lower case, none of the eight is answered 400
\* "Unknown operation".
C26_ValidationErrorsStay400 ==
    m_pc = "responded" =>
        /\ TryBlock(op).exc = "HTTPException" =>
              /\ m_response.status_code = 400
              /\ m_response.detail = TryBlock(op).detail
              /\ m_response.result = NoResult
        /\ Lower(op.operation) \notin SupportedOperations =>
              /\ m_response.status_code = 400
              /\ m_response.detail =
                    <<"Unknown operation: ">> \o Lower(op.operation)

\* C26's case: the operation mod, which the server does not know, was
\* answered; and sqrt of -1, refused by a validation branch, was answered.
C26_Witness ==
    /\ m_pc = "responded"
    /\ m_response.status_code = 400
    /\ \/ op.operation = <<"m", "o", "d">>
       \/ op.operation = <<"S", "q", "r", "t">> /\ op.value = Some(-1)


\* ------------------------------------------ GET /mcp/tools
\* A tool of the catalog: its name, the keys of the properties of its
\* inputSchema and the list required.
MCPTool(name, properties, required) ==
    [name |-> name, properties |-> properties, required |-> required]

\* Mutant of Tools: the catalog marks nothing required for sqrt.
ToolsSqrtOptional ==
    << MCPTool(NameAdd, {"a", "b"}, {"a", "b"}),
       MCPTool(NameSubtract, {"a", "b"}, {"a", "b"}),
       MCPTool(NameMultiply, {"a", "b"}, {"a", "b"}),
       MCPTool(NameDivide, {"a", "b"}, {"a", "b"}),
       MCPTool(NamePower, {"base", "exponent"}, {"base", "exponent"}),
       MCPTool(NameSqrt, {"value"}, {}),
       MCPTool(NameAbs, {"value"}, {"value"}),
       MCPTool(NameFactorial, {"n"}, {"n"}) >>

\* Lines 73-170: the list tools of list_mcp_tools.
Tools ==
    << MCPTool(NameAdd, {"a", "b"}, {"a", "b"}),
       MCPTool(NameSubtract, {"a", "b"}, {"a", "b"}),
       MCPTool(NameMultiply, {"a", "b"}, {"a", "b"}),
       MCPTool(NameDivide, {"a", "b"}, {"a", "b"}),
       MCPTool(NamePower, {"base", "exponent"}, {"base", "exponent"}),
       MCPTool(NameSqrt, {"value"}, {"value"}),
       MCPTool(NameAbs, {"value"}, {"value"}),
       MCPTool(NameFactorial, {"n"}, {"n"}) >>

\* Lines 70-172: GET /mcp/tools answers with the catalog.
ListMcpTools ==
    /\ m_tools = <<>>
    /\ UNCHANGED notCatalog
    /\ m_tools' = Tools

\* The requests of a client of both endpoints: every operation string, and
\* each parameter absent, zero or negative.
PresenceParams == {None, Some(0), Some(-1)}

CatalogInit ==
    /\ m_pc = "request"
    /\ op \in [operation : Operations, a : PresenceParams, b : PresenceParams,
               value : PresenceParams, base : PresenceParams,
               exponent : PresenceParams, n : PresenceParams]
    /\ m_response = [status_code |-> 0, detail |-> <<>>, result |-> NoResult]
    /\ m_evaluated = {}
    /\ m_tools = <<>>

CatalogNext ==
    \/ Calculate
    \/ ListMcpTools

\* ------------------------------------------ GET /mcp/tools: the claims
\* The parameters of a MathOperation (lines 24-30).
ParamNames == {"a", "b", "value", "base", "exponent", "n"}

\* The details of the responses that say a parameter is required.
RequiredDetails ==
    { ABRequired,
      <<"Parameters 'base' and 'exponent' are required">>,
      ValueRequired,
      <<"Parameter 'n' is required">> }

\* The request was answered "Unknown operation".
UnknownOperation ==
    /\ m_response.status_code = 400
    /\ m_response.detail # <<>>
    /\ m_response.detail[1] = "Unknown operation: "

\* C27: the catalog of GET /mcp/tools agrees with POST /calculate: an
\* operation name is accepted exactly when, in lower case, it is the name
\* of a listed tool, the tool names are the eight operation names, and for
\* the tool of the operation the request is answered 400 for an absent
\* parameter exactly when one of the parameters the tool marks required
\* is absent.
C27_CatalogMatchesCalculate ==
    (m_tools # <<>> /\ m_pc = "responded") =>
        /\ { m_tools[i].name : i \in DOMAIN m_tools } = SupportedOperations
        /\ \A i, j \in DOMAIN m_tools :
              m_tools[i].name = m_tools[j].name => i = j
        /\ UnknownOperation <=>
              ~\E i \in DOMAIN m_tools : m_tools[i].name = Lower(op.operation)
        /\ \A i \in DOMAIN m_tools :
              m_tools[i].name = Lower(op.operation) =>
                  /\ m_tools[i].required \subseteq ParamNames
                  /\ m_tools[i].required \subseteq m_tools[i].properties
                  /\ (\E p \in m_tools[i].required : op[p].none) <=>
                        /\ m_response.status_code = 400
                        /\ m_response.detail \in RequiredDetails

\* C27's case: the catalog was fetched and a sqrt request without value,
\* with every other parameter given, was answered 400.
C27_Witness ==
    /\ m_tools # <<>>
    /\ m_pc = "responded"
    /\ op.operation = NameSqrt
    /\ op.value = None
    /\ op.a = Some(0) /\ op.b = Some(0) /\ op.n = Some(0)
    /\ op.base = Some(0) /\ op.exponent = Some(0)
    /\ m_response.status_code = 400


\* ------------------------------------------ get_any_available_chat_model
\* The listed model has a non-empty id, is an LLM or has no type, and has
\* no guard in its id.
Eligible(m) ==
    /\ ~m.id.none
    /\ m.id.id # <<>>
    /\ m.type \in {"", "llm"}
    /\ \A i \in DOMAIN m.id.id : m.id.id[i] # "guard"

\* The positions of the eligible models in client.models.list().
EligiblePositions == { k \in DOMAIN models : Eligible(models[k]) }

\* C29: without a supplied model, the models probed are the eligible
\* models in the order of the list, each once; probing stops at the first
\* probe that succeeds and that model is the one returned; None is returned
\* exactly when every eligible model was probed and none succeeded.
C29_FirstChatCapableModel ==
    ~Supplied =>
        /\ \A p \in DOMAIN probes :
              \E k \in EligiblePositions :
                  /\ probes[p].model = models[k].id.id
                  /\ Cardinality({ j \in EligiblePositions : j < k }) = p - 1
        /\ \A p \in 1..(Len(probes) - 1) : ~probes[p].ok
        /\ (g_pc = "generate" \/ generated # <<>>) =>
              /\ probes # <<>>
              /\ probes[Len(probes)].ok
              /\ resolved_model = Str(probes[Len(probes)].model)
        /\ (g_pc = "returned" /\ generated = <<>>) =>
              /\ resolved_model.none
              /\ Len(probes) = Cardinality(EligiblePositions)
              /\ \A p \in DOMAIN probes : ~probes[p].ok

\* C29's case: two eligible models are listed, the first answered the
\* probe and was returned, the second was not probed.
C29_Witness ==
    /\ ~Supplied
    /\ Len(models) = 2
    /\ Cardinality(EligiblePositions) = 2
    /\ models[1].id # models[2].id
    /\ Len(probes) = 1
    /\ probes[1].ok
    /\ resolved_model = models[1].id
    /\ Len(generated) = 1

\* ------------------------------------------------------- specifications
\* The state of a procedure that is not called.
AttachIdle == timeout_seconds = 0 /\ AttachInit
CtxIdle == search_results = [none |-> TRUE, items |-> <<>>] /\ CtxInit
RepeatIdle == calls = <<>>
MultiIdle == MultiInit
ChunkIdle == 
    /\ chunking_strategy = [max_chunk_size_tokens |-> 1,
                            chunk_overlap_tokens |-> 0]
    /\ ChunkInit
BatchIdle == 
    /\ b_pc = "collect"
    /\ file_dir = "none"
    /\ dir_files = <<>>
    /\ url_list = <<>>
    /\ file_paths = <<>>
    /\ doc = 0
    /\ uploads = <<>>
    /\ outcomes = <<>>
    /\ b_printed = <<>>
    /\ b_escaped = ""
CleanupIdle == cl_demo = "simple_rag" /\ CleanupInit
CalcIdle == 
    /\ m_pc = "request"
    /\ op = [operation |-> <<>>, a |-> None, b |-> None, value |-> None,
             base |-> None, exponent |-> None, n |-> None]
    /\ m_response = [status_code |-> 0, detail |-> <<>>, result |-> NoResult]
    /\ m_evaluated = {}
ChatIdle == 
    /\ g_pc = "resolve"
    /\ model_id = NoneStr
    /\ env_model = NoneStr
    /\ stream = FALSE
    /\ models = <<>>
    /\ resolved_model = NoneStr
    /\ available_models = <<>>
    /\ g_i = 0
    /\ probes = <<>>
    /\ generated = <<>>
    /\ g_printed = <<>>
VecIdle == 
    /\ v_pc = "select"
    /\ v_provider_id = NoneStr
    /\ v_store_id = NoneStr
    /\ v_providers = <<>>
    /\ v_provider = NoProvider
    /\ v_printed = <<>>
    /\ v_created = <<>>
McpIdle == 
    /\ t_pc = "provider"
    /\ t_provider_id = NoneStr
    /\ t_tool_name = "add"
    /\ t_providers = <<>>
    /\ t_provider = NoToolProvider
    /\ t_tool_names = <<>>
    /\ t_requests = <<>>
    /\ t_printed = <<>>
SetupIdle == 
    /\ h_pc = "dotenv"
    /\ h_load_dotenv = FALSE
    /\ h_host = "localhost"
    /\ h_port = 80
    /\ h_client = NoClient
    /\ h_calls = <<>>
    /\ h_exc = ""
    /\ h_health = NoHealth
    /\ h_printed = <<>>
    /\ h_dotenv_loaded = 0
RouteIdle == 
    /\ r_pc = "route"
    /\ r_subtask = <<>>
    /\ r_web_available = FALSE
    /\ r_route = ""
    /\ r_agent = ""
    /\ r_turns = <<>>
CatalogIdle == 
    /\ m_tools = <<>>

\* _attach_file alone.
InitAttach == AttachInit /\ CtxIdle /\ RepeatIdle /\ MultiIdle /\
    ChunkIdle /\ BatchIdle /\ CleanupIdle /\ CalcIdle /\ ChatIdle /\
    VecIdle /\ McpIdle /\ SetupIdle /\ RouteIdle /\ CatalogIdle

SpecAttach == InitAttach /\ [][AttachNext]_vars

\* build_context alone, called once.
InitContext == CtxInit /\ AttachIdle /\ RepeatIdle /\ MultiIdle /\
    ChunkIdle /\ BatchIdle /\ CleanupIdle /\ CalcIdle /\ ChatIdle /\
    VecIdle /\ McpIdle /\ SetupIdle /\ RouteIdle /\ CatalogIdle

SpecContext == InitContext /\ [][CtxNext]_vars

\* build_context called up to MaxCalls times by one process.
InitRepeat == CtxInit /\ AttachIdle /\ RepeatIdle /\ MultiIdle /\
    ChunkIdle /\ BatchIdle /\ CleanupIdle /\ CalcIdle /\ ChatIdle /\
    VecIdle /\ McpIdle /\ SetupIdle /\ RouteIdle /\ CatalogIdle

SpecRepeat == InitRepeat /\ [][CtxRepeatNext]_vars

\* main of the multi-source RAG demo.
InitMulti == MultiInit /\ AttachIdle /\ CtxIdle /\ RepeatIdle /\ ChunkIdle /\
    BatchIdle /\ CleanupIdle /\ CalcIdle /\ ChatIdle /\ VecIdle /\ McpIdle /\
    SetupIdle /\ RouteIdle /\ CatalogIdle

SpecMulti == InitMulti /\ [][MultiNext]_vars

\* _attach_with_chunking alone.
InitChunk == ChunkInit /\ AttachIdle /\ CtxIdle /\ RepeatIdle /\ MultiIdle /\
    BatchIdle /\ CleanupIdle /\ CalcIdle /\ ChatIdle /\ VecIdle /\ McpIdle /\
    SetupIdle /\ RouteIdle /\ CatalogIdle

SpecChunk == InitChunk /\ [][ChunkNext]_vars

\* main of insert-documents, _attach_file included.
InitBatch == BatchInit /\ AttachReturned /\ CtxIdle /\ RepeatIdle /\
    MultiIdle /\ ChunkIdle /\ CleanupIdle /\ CalcIdle /\ ChatIdle /\
    VecIdle /\ McpIdle /\ SetupIdle /\ RouteIdle /\ CatalogIdle

SpecBatch == InitBatch /\ [][BatchNext]_vars

\* The try/finally of the simple-RAG and chunking-strategies demos.
InitCleanup == CleanupInit /\ AttachIdle /\ CtxIdle /\ RepeatIdle /\
    MultiIdle /\ ChunkIdle /\ BatchIdle /\ CalcIdle /\ ChatIdle /\ VecIdle /\
    McpIdle /\ SetupIdle /\ RouteIdle /\ CatalogIdle

SpecCleanup == InitCleanup /\ [][CleanupNext]_vars

\* POST /calculate of the math server.
InitCalc == CalcInit /\ AttachIdle /\ CtxIdle /\ RepeatIdle /\ MultiIdle /\
    ChunkIdle /\ BatchIdle /\ CleanupIdle /\ ChatIdle /\ VecIdle /\
    McpIdle /\ SetupIdle /\ RouteIdle /\ CatalogIdle

SpecCalc == InitCalc /\ [][CalcNext]_vars

\* main of the chat-completion demo.
InitChat == ChatInit /\ AttachIdle /\ CtxIdle /\ RepeatIdle /\ MultiIdle /\
    ChunkIdle /\ BatchIdle /\ CleanupIdle /\ CalcIdle /\ VecIdle /\
    McpIdle /\ SetupIdle /\ RouteIdle /\ CatalogIdle

SpecChat == InitChat /\ [][ChatNext]_vars

\* _get_vector_provider and its caller in main of insert-documents.
InitVec == VecInit /\ AttachIdle /\ CtxIdle /\ RepeatIdle /\ MultiIdle /\
    ChunkIdle /\ BatchIdle /\ CleanupIdle /\ CalcIdle /\ ChatIdle /\
    McpIdle /\ SetupIdle /\ RouteIdle /\ CatalogIdle

SpecVec == InitVec /\ [][VecNext]_vars

\* run of the MCP tools demo.
InitMcp == McpInit /\ AttachIdle /\ CtxIdle /\ RepeatIdle /\ MultiIdle /\
    ChunkIdle /\ BatchIdle /\ CleanupIdle /\ CalcIdle /\ ChatIdle /\
    VecIdle /\ SetupIdle /\ RouteIdle /\ CatalogIdle

SpecMcp == InitMcp /\ [][McpNext]_vars

\* main of the client-setup demo.
InitSetup == SetupInit /\ AttachIdle /\ CtxIdle /\ RepeatIdle /\ MultiIdle /\
    ChunkIdle /\ BatchIdle /\ CleanupIdle /\ CalcIdle /\ ChatIdle /\
    VecIdle /\ McpIdle /\ RouteIdle /\ CatalogIdle

SpecSetup == InitSetup /\ [][SetupNext]_vars

\* _route_subtask and the loop body of main of the agent-routing demo.
InitRoute == RouteInit /\ AttachIdle /\ CtxIdle /\ RepeatIdle /\ MultiIdle /\
    ChunkIdle /\ BatchIdle /\ CleanupIdle /\ CalcIdle /\ ChatIdle /\
    VecIdle /\ McpIdle /\ SetupIdle /\ CatalogIdle

SpecRoute == InitRoute /\ [][RouteNext]_vars

\* GET /mcp/tools and POST /calculate of the math server.
InitCatalog == CatalogInit /\ AttachIdle /\ CtxIdle /\ RepeatIdle /\
    MultiIdle /\ ChunkIdle /\ BatchIdle /\ CleanupIdle /\ ChatIdle /\
    VecIdle /\ McpIdle /\ SetupIdle /\ RouteIdle

SpecCatalog == InitCatalog /\ [][CatalogNext]_vars

====
